---- MODULE Spec2Model ----
(***************************************************************************)
(* Model of the appointment-booking agent: the LangGraph conversation      *)
(* graph of backend/agent/booking_agent.py, the two date-preference        *)
(* parsers (backend/agent/tools.py, backend/utils/date_parser.py) and the  *)
(* calendar gateway of backend/utils/calendar.py (slot generation,         *)
(* suggestion window, booking).                                            *)
(*                                                                         *)
(* Times are wall-clock seconds counted from 00:00 of "today" in the       *)
(* gateway's timezone; the code compares datetimes that all carry the same *)
(* tzinfo, so the comparison is the comparison of these numbers.           *)
(* Message texts are represented by the name of the template that built    *)
(* them.                                                                   *)
(***************************************************************************)
EXTENDS Integers, Sequences, FiniteSets, TLC

VARIABLES
    \* ---- AgentState (booking_agent.py:79-93), fresh for every chat request
    messages,             \* sequence of [role, content]
    user_intent,
    appointment_details,  \* record, see NoDetails
    available_slots,      \* sequence of slot-info records
    booking_confirmed,
    error_message,        \* "" is None
    simple_greeting,
    auto_selected_slot,
    \* ---- control
    pc,                   \* node the graph runs next; "idle" between requests
    attempt,              \* loop index of book_appointment_node's retry loop
    \* ---- environment
    calendar,             \* events of the Google calendar: set of [start, end]
    today_weekday,        \* datetime.now().weekday(), 0 = Monday
    toolRaises,           \* calling the @tool-wrapped parser raises
    \* ---- history (not program state)
    visited,              \* nodes run in the current invocation, in order
    createLog,            \* results of calendar_manager.book_appointment calls
    reverifyLog,          \* what each retry's reverification did
    gatewayLog,           \* gateway methods called, and on what authentication
    turns,                \* chat requests handled so far
    \* ---- inputs and outputs of the pure functions under check
    fnIn, fnOut

vars == << messages, user_intent, appointment_details, available_slots,
           booking_confirmed, error_message, simple_greeting,
           auto_selected_slot, pc, attempt, calendar, today_weekday,
           toolRaises, visited, createLog, reverifyLog, gatewayLog, turns,
           fnIn, fnOut >>

agentVars == << messages, user_intent, appointment_details, available_slots,
                booking_confirmed, error_message, simple_greeting,
                auto_selected_slot >>

ctlVars == << pc, attempt >>

envVars == << calendar, today_weekday, toolRaises >>

histVars == << visited, createLog, reverifyLog, gatewayLog, turns >>

fnVars == << fnIn, fnOut >>

-----------------------------------------------------------------------------
(* Bounds of the model                                                     *)

\* chat requests per behaviour
MaxTurns == 2

\* events the calendar holds: the list handed to the slot generator in
\* SlotSpec, and the limit of ExternalBooking in Spec
MaxEvents == 2

-----------------------------------------------------------------------------
(* Program constants                                                       *)

business_start == 9
business_end == 17
SlotStepMinutes == 30
DefaultDurationMinutes == 60
max_booking_attempts == 2
ReverifyToleranceSeconds == 300

-----------------------------------------------------------------------------
(* Time                                                                    *)

\* datetime(day, hour, minute, second) as seconds from today 00:00
At(d, h, m, s) == ((d * 24 + h) * 60 + m) * 60 + s

\* datetime.hour
HourOf(t) == (t \div 3600) % 24

\* the day a datetime falls on
DayOf(t) == t \div 86400

Abs(x) == IF x < 0 THEN -x ELSE x

-----------------------------------------------------------------------------
(* Utterances                                                              *)
(*                                                                         *)
(* An utterance is its lower-cased text cut into tokens: a word, a bare    *)
(* number, or a clock time "H[:MM][ ]am|pm" / "HH:MM".  The code's         *)
(* substring tests on keywords are tests for the word (or the adjacent     *)
(* words of a phrase); its regular expressions read the digits, the colon  *)
(* and the am/pm mark, which the time and number tokens keep.              *)

\* a word
W(w) == [k |-> "w", w |-> w, h |-> 0, m |-> -1, p |-> "", lit |-> FALSE]
\* a bare number
N(n) == [k |-> "n", w |-> "", h |-> n, m |-> -1, p |-> "", lit |-> FALSE]
\* "H am|pm" (m = -1) or "H:MM am|pm"
T12(h, m, p) == [k |-> "t", w |-> "", h |-> h, m |-> m, p |-> p, lit |-> FALSE]
\* "HH:MM am|pm" written as strftime('%I:%M %p') writes it: two-digit hour,
\* colon, minutes, one space, am|pm
T12L(h, m, p) == [k |-> "t", w |-> "", h |-> h, m |-> m, p |-> p, lit |-> TRUE]
\* "HH:MM"
T24(h, m) == [k |-> "t", w |-> "", h |-> h, m |-> m, p |-> "", lit |-> FALSE]

\* the words of the vocabulary that contain a keyword as a proper substring
SubstringPairs ==
    { << "goodbye", "bye" >>, << "booking", "book" >>,
      << "reschedule", "schedule" >> }

\* Python's `keyword in text` for a one-word keyword
HasWord(u, w) ==
    \E i \in DOMAIN u :
        /\ u[i].k = "w"
        /\ (u[i].w = w \/ << u[i].w, w >> \in SubstringPairs)

\* Python's `keyword in text` for a keyword of several words
HasWords(u, ws) ==
    \E i \in DOMAIN u :
        \A j \in 1..Len(ws) :
            /\ i + j - 1 \in DOMAIN u
            /\ u[i + j - 1].k = "w"
            /\ u[i + j - 1].w = ws[j]

HasPhrase(u, w1, w2) == HasWords(u, << w1, w2 >>)

\* index of the first token among those at the indices idx, 0 for none
FirstOf(idx) ==
    IF idx = {} THEN 0 ELSE CHOOSE i \in idx : \A j \in idx : i <= j

-----------------------------------------------------------------------------
(* backend/utils/date_parser.py: the parser the gateway uses                *)

Weekdays == << "monday", "tuesday", "wednesday", "thursday", "friday",
               "saturday", "sunday" >>

\* (target - today.weekday()) % 7, with 0 replaced by 7
DaysUntil(target, wd) ==
    LET d == (target - wd) % 7 IN IF d = 0 THEN 7 ELSE d

\* date_parser.py:26-68; the result is the day offset from today
DP_TargetDay(u, wd) ==
    IF HasWord(u, "tomorrow") \/ HasPhrase(u, "next", "day") THEN 1
    ELSE IF HasPhrase(u, "next", "week") THEN 7
    ELSE IF \E i \in 1..7 : HasPhrase(u, "next", Weekdays[i])
         THEN LET i == CHOOSE i \in 1..7 :
                         /\ HasPhrase(u, "next", Weekdays[i])
                         /\ \A j \in 1..(i - 1) : ~HasPhrase(u, "next", Weekdays[j])
              IN DaysUntil(i - 1, wd)
    ELSE 1

Is12h(tok) == tok.k = "t" /\ tok.p # ""
Is24h(tok) == tok.k = "t" /\ tok.m # -1

\* a variant that adds 12 to every pm hour and leaves every am hour
To24Hour_NoNoon(hour, period) == IF period = "pm" THEN hour + 12 ELSE hour
\* date_parser.py:82-85
To24Hour(hour, period) ==
    IF period = "pm" /\ hour # 12 THEN hour + 12
    ELSE IF period = "am" /\ hour = 12 THEN 0
    ELSE hour

\* date_parser.py:70-107: [kind, start_hour, minute]
DP_Time(u) ==
    LET i12 == FirstOf({ i \in DOMAIN u : Is12h(u[i]) })
        i24 == FirstOf({ i \in DOMAIN u : Is24h(u[i]) })
    IN  IF i12 # 0
        THEN [kind |-> "specific time",
              start_hour |-> To24Hour(u[i12].h, u[i12].p),
              minute |-> IF u[i12].m = -1 THEN 0 ELSE u[i12].m]
        ELSE IF i24 # 0
        THEN IF u[i24].h >= 0 /\ u[i24].h < 24 /\ u[i24].m >= 0 /\ u[i24].m < 60
             THEN [kind |-> "specific time", start_hour |-> u[i24].h,
                   minute |-> u[i24].m]
             ELSE [kind |-> "business hours", start_hour |-> 10, minute |-> 0]
        ELSE IF HasWord(u, "morning")
        THEN [kind |-> "morning", start_hour |-> 9, minute |-> 0]
        ELSE IF HasWord(u, "afternoon")
        THEN [kind |-> "afternoon", start_hour |-> 13, minute |-> 0]
        ELSE IF HasWord(u, "evening")
        THEN [kind |-> "evening", start_hour |-> 17, minute |-> 0]
        ELSE [kind |-> "business hours", start_hour |-> 10, minute |-> 0]

\* date_parser.py:10-122.  The returned dictionary has no
\* 'is_availability_request' and no 'availability_period' key.
DP_parse_date_preference(u, wd) ==
    LET t == DP_Time(u)
    IN  [target_day |-> DP_TargetDay(u, wd),
         time_preference |-> t.kind,
         start_hour |-> t.start_hour,
         minute |-> t.minute,
         duration |-> 60,
         is_availability_request |-> FALSE,
         availability_period |-> ""]

-----------------------------------------------------------------------------
(* backend/agent/tools.py: the parser the agent's nodes use                 *)

\* tools.py:166-183
TP_TargetDay(u, wd) ==
    IF HasWord(u, "tomorrow") \/ HasPhrase(u, "next", "day") THEN 1
    ELSE IF HasPhrase(u, "next", "week") THEN 7
    ELSE IF HasPhrase(u, "next", "friday") THEN DaysUntil(4, wd)
    ELSE IF HasPhrase(u, "next", "monday") THEN DaysUntil(0, wd)
    ELSE 1

\* tools.py:151-212
TP_parse_date_preference(u, wd) ==
    LET t == IF HasWord(u, "morning")
             THEN [kind |-> "morning", start_hour |-> 9]
             ELSE IF HasWord(u, "afternoon")
             THEN [kind |-> "afternoon", start_hour |-> 13]
             ELSE IF HasWord(u, "evening")
             THEN [kind |-> "evening", start_hour |-> 17]
             ELSE [kind |-> "business hours", start_hour |-> 10]
    IN  [target_day |-> TP_TargetDay(u, wd),
         time_preference |-> t.kind,
         start_hour |-> t.start_hour,
         duration |-> 60]


-----------------------------------------------------------------------------
(* backend/utils/calendar.py: GoogleCalendarManager                         *)

\* a variant: the closing hour is admitted (<= instead of <)
InBusinessHours_Inclusive(t) ==
    business_start <= HourOf(t) /\ HourOf(t) <= business_end

\* calendar.py:213, the business-hours test on the candidate's start
InBusinessHours(t) == business_start <= HourOf(t) /\ HourOf(t) < business_end

\* a variant: only the candidate's start is tested against the event
Overlaps_StartOnly(t, slot_end, ev) == t < ev.end /\ t >= ev.start

\* calendar.py:244, candidate [t, slot_end) against one event
Overlaps(t, slot_end, ev) == t < ev.end /\ slot_end > ev.start

\* a variant without the business-hours test
SlotAdmitted_AnyHour(t, end_date, events, duration_minutes) ==
    LET slot_end == t + duration_minutes * 60
    IN  /\ ~ \E ev \in events : Overlaps(t, slot_end, ev)
        /\ slot_end <= end_date

\* calendar.py:217-252, is the candidate starting at t admitted
SlotAdmitted(t, end_date, events, duration_minutes) ==
    LET slot_end == t + duration_minutes * 60
    IN  /\ InBusinessHours(t)
        /\ ~ \E ev \in events : Overlaps(t, slot_end, ev)
        /\ slot_end <= end_date

\* calendar.py:254-261 (the display strings are functions of start and end)
MakeSlot(t, duration_minutes) ==
    [start |-> t, end |-> t + duration_minutes * 60,
     duration_minutes |-> duration_minutes]

\* calendar.py:209-267, the while loop from current_time on
RECURSIVE GenerateFrom(_, _, _, _)
GenerateFrom(current_time, end_date, events, duration_minutes) ==
    IF ~ (current_time < end_date) THEN << >>
    ELSE (IF SlotAdmitted(current_time, end_date, events, duration_minutes)
          THEN << MakeSlot(current_time, duration_minutes) >>
          ELSE << >>)
         \o GenerateFrom(current_time + SlotStepMinutes * 60, end_date, events,
                         duration_minutes)

\* calendar.py:189-267
generate_available_slots(start_date, end_date, events, duration_minutes) ==
    GenerateFrom(start_date, end_date, events, duration_minutes)

\* calendar.py:168-176, events().list(timeMin, timeMax): the events of the
\* calendar that intersect the range
ListEvents(cal, timeMin, timeMax) ==
    { ev \in cal : ev.end > timeMin /\ ev.start < timeMax }

\* calendar.py:143-187.  api is what the events().list call does:
\* "ok", or "http_error" (HttpError, caught: the result is empty)
check_availability(cal, start_date, end_date, duration_minutes, api) ==
    IF api = "http_error" THEN << >>
    ELSE generate_available_slots(start_date, end_date,
                                  ListEvents(cal, start_date, end_date),
                                  duration_minutes)

Take(seq, n) == IF Len(seq) <= n THEN seq ELSE SubSeq(seq, 1, n)

\* A call's outcome: the value returned, or an exception raised
Returned(v) == [raised |-> FALSE, value |-> v]
Raised == [raised |-> TRUE, value |-> << >>]

\* calendar.py:378-399.  arg is the Python value passed as `date`:
\* [type |-> "datetime" or "date", day |-> d].  date.replace() takes no
\* hour/minute/second/microsecond keyword: with a datetime.date the first
\* statement raises TypeError.
get_next_available_slots(cal, arg, count, api) ==
    IF arg.type # "datetime" THEN Raised
    ELSE Returned(Take(check_availability(cal, At(arg.day, 9, 0, 0),
                                          At(arg.day, 17, 0, 0),
                                          DefaultDurationMinutes, api),
                       count))

Max(a, b) == IF a >= b THEN a ELSE b
Min(a, b) == IF a <= b THEN a ELSE b

\* list.sort(key=...) with the key |start - target|: stable insertion of
\* x after every element whose key is not larger
RECURSIVE InsertByDistance(_, _, _)
InsertByDistance(sorted, x, target) ==
    IF sorted = << >> THEN << x >>
    ELSE IF Abs(x.start - target) < Abs(Head(sorted).start - target)
         THEN << x >> \o sorted
    ELSE << Head(sorted) >> \o InsertByDistance(Tail(sorted), x, target)

\* a variant that leaves the slots in chronological order
SortByDistance_Chronological(seq, target) == seq
\* calendar.py:480-482
RECURSIVE SortByDistance(_, _)
SortByDistance(seq, target) ==
    IF seq = << >> THEN << >>
    ELSE InsertByDistance(SortByDistance(SubSeq(seq, 1, Len(seq) - 1), target),
                          seq[Len(seq)], target)

\* a variant: a specific time widens the window to two hours on each side
SuggestWindow_TwoHours(parsed) ==
    LET d == parsed.target_day
        start_hour == parsed.start_hour
    IN  IF parsed.time_preference = "specific time"
        THEN [start_date |-> At(d, Max(9, start_hour - 2), 0, 0),
              end_date |-> At(d, Min(17, start_hour + 2), 59, 59)]
        ELSE [start_date |-> At(d, 9, 0, 0), end_date |-> At(d, 17, 0, 0)]

\* calendar.py:449-468, the search window [start_date, end_date] on the
\* target day d for a parsed preference
SuggestWindow(parsed) ==
    LET d == parsed.target_day
        start_hour == parsed.start_hour
    IN  IF parsed.time_preference = "specific time"
        THEN [start_date |-> At(d, Max(9, start_hour - 1), 0, 0),
              end_date |-> At(d, Min(17, start_hour + 1), 59, 59)]
        ELSE IF parsed.time_preference = "morning"
        THEN [start_date |-> At(d, 9, 0, 0), end_date |-> At(d, 12, 0, 0)]
        ELSE IF parsed.time_preference = "afternoon"
        THEN [start_date |-> At(d, 13, 0, 0), end_date |-> At(d, 17, 0, 0)]
        ELSE IF parsed.time_preference = "evening"
        THEN [start_date |-> At(d, 17, 0, 0), end_date |-> At(d, 19, 0, 0)]
        ELSE [start_date |-> At(d, 9, 0, 0), end_date |-> At(d, 17, 0, 0)]

\* calendar.py:481, target_time of a specific-time request
TargetTime(parsed) == At(parsed.target_day, parsed.start_hour, 0, 0)

\* calendar.py:452 and 481: datetime.replace(hour=...) raises ValueError
\* for an hour outside 0..23
ReplaceHourRaises(parsed) ==
    /\ parsed.time_preference = "specific time"
    /\ \/ Max(9, parsed.start_hour - 1) > 23
       \/ parsed.start_hour > 23

\* calendar.py:438-441, the slot with the day it was found on added
\* (day_name and day_date are both written from check_date)
TagDay(slot, check_day) ==
    [start |-> slot.start, end |-> slot.end,
     duration_minutes |-> slot.duration_minutes, day |-> check_day]

TagDays(slots, check_day) ==
    [k \in DOMAIN slots |-> TagDay(slots[k], check_day)]

\* calendar.py:421-443, the loop over the seven days from day i on
RECURSIVE WeekSlots(_, _, _, _)
WeekSlots(cal, d, i, api) ==
    IF i >= 7 THEN << >>
    ELSE TagDays(check_availability(cal, At(d + i, 9, 0, 0), At(d + i, 17, 0, 0),
                                    DefaultDurationMinutes, api), d + i)
         \o WeekSlots(cal, d, i + 1, api)

\* calendar.py:446, list.sort(key=lambda x: x['start']): the stable sort by
\* start; pos[k] is the place of seq[k] in the sorted list
SortByStart(seq) ==
    LET pos == [k \in DOMAIN seq |->
                   1 + Cardinality({ j \in DOMAIN seq :
                                       \/ seq[j].start < seq[k].start
                                       \/ seq[j].start = seq[k].start /\ j < k })]
    IN  [p \in DOMAIN seq |-> seq[CHOOSE k \in DOMAIN seq : pos[k] = p]]

\* calendar.py:418-447, the seven-day search: sorted by start, the first 10
WeekSearch(cal, d, api) ==
    Take(SortByStart(WeekSlots(cal, d, 0, api)), 10)

\* calendar.py:401-484, on an already parsed preference
SuggestFor(cal, parsed, api) ==
    IF parsed.is_availability_request /\ parsed.availability_period = "week"
    THEN Returned(WeekSearch(cal, parsed.target_day, api))
    ELSE IF ReplaceHourRaises(parsed) THEN Raised
    ELSE LET w == SuggestWindow(parsed)
             available == check_availability(cal, w.start_date, w.end_date,
                                             DefaultDurationMinutes, api)
         IN  IF parsed.time_preference = "specific time"
             THEN Returned(SortByDistance(available, TargetTime(parsed)))
             ELSE Returned(available)

\* calendar.py:401-484
suggest_time_slots(cal, user_preference, wd, api) ==
    SuggestFor(cal, DP_parse_date_preference(user_preference, wd), api)

\* what the Google API does during one call of the gateway
ApiOutcomes == { "ok", "http_error", "insert_error" }

\* a variant that inserts without looking at the calendar first
gateway_book_appointment_Unchecked(cal, start_time, end_time, api) ==
    IF api = "insert_error"
    THEN [success |-> FALSE, error |-> "HTTP Error", cal |-> cal]
    ELSE [success |-> TRUE, error |-> "",
          cal |-> cal \cup { [start |-> start_time, end |-> end_time] }]
\* calendar.py:269-376.  The result and the calendar after the call.
\* api is what the Google API does in the call: "ok", "http_error" in
\* events().list (the availability is then empty), "insert_error" in
\* events().insert (caught, success False).
gateway_book_appointment(cal, start_time, end_time, api) ==
    LET availability ==
            check_availability(cal, start_time, end_time,
                               (end_time - start_time) \div 60,
                               IF api = "http_error" THEN api ELSE "ok")
    IN  IF availability = << >>
        THEN [success |-> FALSE, error |-> "Time slot no longer available",
              cal |-> cal]
        ELSE IF api = "insert_error"
        THEN [success |-> FALSE, error |-> "HTTP Error", cal |-> cal]
        ELSE [success |-> TRUE, error |-> "",
              cal |-> cal \cup { [start |-> start_time, end |-> end_time] }]


-----------------------------------------------------------------------------
(* The agent state of a fresh chat request, and the idle control state     *)

NoDetails ==
    [target_day |-> 0, time_preference |-> "", start_hour |-> -1,
     duration |-> 0, parsed_input |-> "", title |-> "",
     start_time |-> -1, end_time |-> -1, selected_slot |-> << >>]

FreshAgent ==
    /\ messages = << >>
    /\ user_intent = ""
    /\ appointment_details = NoDetails
    /\ available_slots = << >>
    /\ booking_confirmed = FALSE
    /\ error_message = ""
    /\ simple_greeting = FALSE
    /\ auto_selected_slot = FALSE

-----------------------------------------------------------------------------
(* SlotSpec: the gateway's pure functions applied to bounded inputs        *)

\* events the calendar may hold on day 1 (and one across midnight)
CandidateEvents ==
    { [start |-> At(1, 8, 0, 0),   end |-> At(1, 9, 30, 0)],
      [start |-> At(1, 10, 0, 0),  end |-> At(1, 11, 0, 0)],
      [start |-> At(1, 13, 15, 0), end |-> At(1, 13, 45, 0)],
      [start |-> At(1, 14, 0, 0),  end |-> At(1, 15, 0, 0)],
      [start |-> At(1, 15, 0, 0),  end |-> At(1, 16, 0, 0)],
      [start |-> At(1, 16, 30, 0), end |-> At(1, 17, 30, 0)],
      [start |-> At(1, 12, 0, 0),  end |-> At(1, 14, 0, 0)],
      [start |-> At(1, 23, 0, 0),  end |-> At(2, 9, 45, 0)] }

EventSets == { E \in SUBSET CandidateEvents : Cardinality(E) <= MaxEvents }

WindowStarts == { At(1, 8, 0, 0), At(1, 9, 0, 0), At(1, 9, 15, 0),
                  At(1, 13, 0, 0), At(1, 16, 0, 0) }

WindowEnds == { At(1, 12, 0, 0), At(1, 17, 0, 0), At(1, 17, 59, 59),
                At(1, 19, 0, 0), At(2, 10, 30, 0) }

Durations == { 30, 60, 90 }

\* "tomorrow at H am|pm", "tomorrow at HH:MM", the keyword windows and the
\* requests for a week
SuggestUtterances ==
    { << W("tomorrow"), W("at"), T12(h, -1, p) >> :
          h \in 1..13, p \in {"am", "pm"} }
    \cup { << W("tomorrow"), W("at"), T24(h, 0) >> : h \in {8, 14, 17, 20} }
    \cup { << W("tomorrow"), W(w) >> :
               w \in {"morning", "afternoon", "evening", "anytime"} }
    \cup { << W(w), W("week") >> : w \in {"this", "next"} }
    \cup { << W("any"), W("time"), W("this"), W("week") >> }

\* inputs of _generate_available_slots
GenerateInputs ==
    { [op |-> "generate", done |-> FALSE, start_date |-> ws, end_date |-> we,
       events |-> E, duration_minutes |-> d] :
          ws \in WindowStarts, we \in WindowEnds, E \in EventSets,
          d \in Durations }

\* inputs of book_appointment: a one-hour interval on day 1, the calendar
\* and what the API does
BookInputs ==
    { [op |-> "book", done |-> FALSE, events |-> E, start_time |-> t,
       end_time |-> t + 3600, api |-> api] :
          t \in { At(1, h, m, 0) : h \in { 8, 9, 13, 14, 16, 17 }, m \in { 0, 30 } },
          E \in EventSets, api \in ApiOutcomes }

\* inputs of suggest_time_slots: the utterance and the calendar
SuggestInputs ==
    { [op |-> "suggest", done |-> FALSE, events |-> E, utterance |-> u,
       parsed |-> DP_parse_date_preference(u, 0)] :
          u \in SuggestUtterances, E \in EventSets }

InitSlots ==
    /\ FreshAgent
    /\ pc = "idle"
    /\ attempt = 0
    /\ calendar = {}
    /\ today_weekday = 0
    /\ toolRaises = FALSE
    /\ visited = << >>
    /\ createLog = << >>
    /\ reverifyLog = << >>
    /\ gatewayLog = << >>
    /\ turns = 0
    /\ fnIn \in GenerateInputs \cup SuggestInputs \cup BookInputs
    /\ fnOut = Returned(<< >>)

\* _generate_available_slots applied to the input
ApplyGenerate ==
    /\ fnIn.op = "generate" /\ ~ fnIn.done
    /\ fnIn' = [fnIn EXCEPT !.done = TRUE]
    /\ fnOut' = Returned(generate_available_slots(fnIn.start_date, fnIn.end_date,
                                                  fnIn.events,
                                                  fnIn.duration_minutes))
    /\ UNCHANGED << agentVars, ctlVars, envVars, histVars >>

\* suggest_time_slots applied to the input
ApplySuggest ==
    /\ fnIn.op = "suggest" /\ ~ fnIn.done
    /\ fnIn' = [fnIn EXCEPT !.done = TRUE]
    /\ fnOut' = suggest_time_slots(fnIn.events, fnIn.utterance, today_weekday, "ok")
    /\ UNCHANGED << agentVars, ctlVars, envVars, histVars >>

\* book_appointment applied to the input; value is the calendar afterwards
ApplyBook ==
    /\ fnIn.op = "book" /\ ~ fnIn.done
    /\ fnIn' = [fnIn EXCEPT !.done = TRUE]
    /\ LET result == gateway_book_appointment(fnIn.events, fnIn.start_time,
                                              fnIn.end_time, fnIn.api)
       IN  fnOut' = [raised |-> FALSE, value |-> << >>,
                     success |-> result.success, cal |-> result.cal]
    /\ UNCHANGED << agentVars, ctlVars, envVars, histVars >>

NextSlots == ApplyGenerate \/ ApplySuggest \/ ApplyBook

SlotSpec == InitSlots /\ [][NextSlots]_vars

SlotsOf(out) == { out.value[i] : i \in DOMAIN out.value }

C9_BusinessHours ==
    (fnIn.op = "generate" /\ fnIn.done) =>
        \A s \in SlotsOf(fnOut) :
            9 <= HourOf(s.start) /\ HourOf(s.start) < 17

\* C9 witness: slots were returned for a window that also covers times
\* before 9:00 and after 17:00, on two days.
C9_Witness ==
    /\ fnIn.op = "generate" /\ fnIn.done
    /\ fnIn.start_date = At(1, 8, 0, 0)
    /\ fnIn.end_date = At(2, 10, 30, 0)
    /\ \E s \in SlotsOf(fnOut) : DayOf(s.start) = 2
    /\ \E s \in SlotsOf(fnOut) : DayOf(s.start) = 1


\* a specific-time request was answered without an exception
SpecificAnswered ==
    /\ fnIn.op = "suggest" /\ fnIn.done
    /\ fnIn.parsed.time_preference = "specific time"
    /\ ~ fnOut.raised

\* the requested time of the suggest input
RequestedTime == At(fnIn.parsed.target_day, fnIn.parsed.start_hour, 0, 0)

\* a 1-hour slot starting at t is in business hours and meets no event
FreeHourAt(t) ==
    /\ 9 <= HourOf(t) /\ HourOf(t) < 17
    /\ \A b \in fnIn.events : ~ (t < b.end /\ t + 3600 > b.start)

\* the 30-minute grid points at most n seconds from the requested time that
\* are free
FreeWithin(n) ==
    { t \in { RequestedTime + k * 1800 : k \in -4..4 } :
          Abs(t - RequestedTime) <= n /\ FreeHourAt(t) }

StartsOf(out) == { out.value[i].start : i \in DOMAIN out.value }

\* C10 as stated: the search is a three-tier ladder that stops at the first
\* non-empty tier: the exact 1-hour slot at the requested hour alone if it
\* is free; otherwise the free slots within one hour; otherwise the free
\* slots within two hours (in business hours).
C10_ThreeTierLadder ==
    SpecificAnswered =>
        /\ FreeHourAt(RequestedTime) =>
               StartsOf(fnOut) = { RequestedTime }
        /\ (~ FreeHourAt(RequestedTime) /\ FreeWithin(3600) # {}) =>
               (fnOut.value # << >> /\ StartsOf(fnOut) \subseteq FreeWithin(3600))
        /\ (FreeWithin(3600) = {} /\ FreeWithin(7200) # {}) =>
               fnOut.value # << >>

\* C10 amended: one window only, from max(9, h-1):00:00 to min(17, h+1):59:59.
\* Every returned slot starts between one hour before the requested time
\* and half an hour after it; every free 1-hour slot of the 30-minute grid
\* in that range is returned; the exact slot is first whenever it is free;
\* nothing farther away is ever searched.
C10_SingleWindow ==
    SpecificAnswered =>
        /\ \A t \in StartsOf(fnOut) :
               RequestedTime - 3600 <= t /\ t <= RequestedTime + 1800
        /\ \A t \in FreeWithin(3600) :
               t <= RequestedTime + 1800 => t \in StartsOf(fnOut)
        /\ FreeHourAt(RequestedTime) => fnOut.value[1].start = RequestedTime

\* C10 witness: the exact slot is busy, nothing within the window is free,
\* a slot two hours away is free, and the answer is empty.
C10_Witness ==
    /\ SpecificAnswered
    /\ FreeWithin(3600) = {}
    /\ FreeWithin(7200) # {}
    /\ fnOut.value = << >>

\* the request names a week and no day or time of its own
IsWeekRequest ==
    /\ fnIn.op = "suggest" /\ fnIn.done
    /\ HasPhrase(fnIn.utterance, "this", "week")
           \/ HasPhrase(fnIn.utterance, "next", "week")

\* C11: for an unscoped "this/next week" request suggest_time_slots runs the
\* slot generator once per day for 7 consecutive days from the target day,
\* tags each slot with its source day and returns the chronologically
\* sorted concatenation truncated to at most 10 slots.
C11_WeekSearchSevenDays ==
    IsWeekRequest =>
        fnOut = Returned(WeekSearch(fnIn.events, fnIn.parsed.target_day, "ok"))



-----------------------------------------------------------------------------
(* The conversation graph of booking_agent.py                              *)

\* the user messages of the model, by their text
Utterances ==
    { "hi",
      "help me book a meeting",
      "book a meeting tomorrow at 2pm",
      "i need a meeting tomorrow afternoon",
      "yes book it",
      "tomorrow at 10:30 am please",
      "book slot 1 next week in the evening",
      "2",
      "9",
      "thanks, bye",
      "tomorrow at 8pm" }

\* the tokens of an utterance
Tokens(text) ==
    CASE text = "hi" -> << W("hi") >>
      [] text = "help me book a meeting" ->
            << W("help"), W("me"), W("book"), W("a"), W("meeting") >>
      [] text = "book a meeting tomorrow at 2pm" ->
            << W("book"), W("a"), W("meeting"), W("tomorrow"), W("at"),
               T12(2, -1, "pm") >>
      [] text = "i need a meeting tomorrow afternoon" ->
            << W("i"), W("need"), W("a"), W("meeting"), W("tomorrow"),
               W("afternoon") >>
      [] text = "yes book it" -> << W("yes"), W("book"), W("it") >>
      [] text = "tomorrow at 10:30 am please" ->
            << W("tomorrow"), W("at"), T12L(10, 30, "am"), W("please") >>
      [] text = "book slot 1 next week in the evening" ->
            << W("book"), W("slot"), N(1), W("next"), W("week"), W("in"),
               W("the"), W("evening") >>
      [] text = "2" -> << N(2) >>
      [] text = "9" -> << N(9) >>
      [] text = "thanks, bye" -> << W("thanks"), W("bye") >>
      [] text = "tomorrow at 8pm" ->
            << W("tomorrow"), W("at"), T12(8, -1, "pm") >>
      [] text = "tomorrow at 02:00 pm" ->
            << W("tomorrow"), W("at"), T12L(2, 0, "pm") >>
      [] OTHER -> << >>

User(text) == [role |-> "user", content |-> text]
Asst(template) == [role |-> "assistant", content |-> template]

\* the content of the last message with role "user", "" when there is none
LastUserMessage(msgs) ==
    IF \E i \in DOMAIN msgs : msgs[i].role = "user"
    THEN msgs[CHOOSE i \in DOMAIN msgs :
                  /\ msgs[i].role = "user"
                  /\ \A j \in (i + 1)..Len(msgs) : msgs[j].role # "user"].content
    ELSE ""

\* ---- the conditional edges, booking_agent.py:115-191

\* a variant that runs greeting a second time
after_greeting_Again(err, msgs) ==
    IF err # "" THEN "handle_error"
    ELSE IF Len(msgs) = 2 THEN "greeting"
    ELSE IF Len(msgs) >= 2 THEN "understand_intent" ELSE "end"
\* booking_agent.py:117
after_greeting(err, msgs) ==
    IF err # "" THEN "handle_error"
    ELSE IF Len(msgs) >= 2 THEN "understand_intent" ELSE "end"

\* a variant that goes on to collect_details after a simple greeting
after_understand_intent_NoShortcut(err, greetingFlag) ==
    IF err # "" THEN "handle_error" ELSE "collect_details"
\* booking_agent.py:127
after_understand_intent(err, greetingFlag) ==
    IF err # "" THEN "handle_error"
    ELSE IF greetingFlag THEN "end" ELSE "collect_details"

\* a variant that does not look at the error field
after_collect_details_NoErrorCheck(err, details) ==
    IF details.target_day # 0 THEN "check_availability" ELSE "suggest_slots"
\* booking_agent.py:137
after_collect_details(err, details) ==
    IF err # "" THEN "handle_error"
    ELSE IF details.target_day # 0 THEN "check_availability" ELSE "suggest_slots"

\* a variant that ends an invocation whose intent is a general inquiry
after_check_availability_ByIntent(err, autoFlag, slots) ==
    IF err # "" THEN "handle_error"
    ELSE IF user_intent = "general_inquiry" THEN "end"
    ELSE IF autoFlag THEN "book_appointment"
    ELSE IF slots # << >> THEN "confirm_booking" ELSE "end"
\* booking_agent.py:147
after_check_availability(err, autoFlag, slots) ==
    IF err # "" THEN "handle_error"
    ELSE IF autoFlag THEN "book_appointment"
    ELSE IF slots # << >> THEN "confirm_booking" ELSE "end"

\* booking_agent.py:158
after_suggest_slots(err, slots) ==
    IF err # "" THEN "handle_error"
    ELSE IF slots # << >> THEN "confirm_booking" ELSE "end"

\* booking_agent.py:168
after_confirm_booking(err, details) ==
    IF err # "" THEN "handle_error"
    ELSE IF details.title # "" THEN "book_appointment" ELSE "end"

\* booking_agent.py:178
after_book_appointment(err) ==
    IF err # "" THEN "handle_error" ELSE "end"

\* booking_agent.py:187
after_handle_error == "end"

\* the graph moves to the routed node; END leaves the invocation
Goto(next) == pc' = IF next = "end" THEN "idle" ELSE next

\* the node `name` starts running
Enter(name) == visited' = Append(visited, name)

\* a variant in which a confirmation outlives its request
BookingConfirmedAtStart_Carried(previous) == previous
\* main.py:263-266 builds AgentState() anew for every request, whatever the
\* previous request left: booking_confirmed starts at its default
BookingConfirmedAtStart(previous) == FALSE

\* ---- main.py:258-277, a chat request: a fresh AgentState holding the
\* user's message, one of texts, is handed to the graph, whose entry point
\* is greeting
Request(texts) ==
    /\ pc = "idle"
    /\ turns < MaxTurns
    /\ \E text \in texts : messages' = << User(text) >>
    /\ user_intent' = ""
    /\ appointment_details' = NoDetails
    /\ available_slots' = << >>
    /\ booking_confirmed' = BookingConfirmedAtStart(booking_confirmed)
    /\ error_message' = ""
    /\ simple_greeting' = FALSE
    /\ auto_selected_slot' = FALSE
    /\ pc' = "greeting"
    /\ attempt' = 0
    /\ toolRaises' \in BOOLEAN
    /\ visited' = << >>
    /\ createLog' = << >>
    /\ reverifyLog' = << >>
    /\ gatewayLog' = << >>
    /\ turns' = turns + 1
    /\ UNCHANGED << calendar, today_weekday, fnVars >>

Chat == Request(Utterances)

\* ---- booking_agent.py:195-205
greeting_node ==
    /\ pc = "greeting"
    /\ Enter("greeting")
    /\ messages' = Append(messages, Asst("general_greeting"))
    /\ Goto(after_greeting(error_message, messages'))
    /\ UNCHANGED << user_intent, appointment_details, available_slots,
                    booking_confirmed, error_message, simple_greeting,
                    auto_selected_slot, attempt, envVars, createLog,
                    reverifyLog, gatewayLog, turns, fnVars >>

\* ---- booking_agent.py:254-467

\* a variant without the greeting shortcut
IsSimpleGreeting_Never(u) == FALSE
\* booking_agent.py:270-271
IsSimpleGreeting(u) ==
    \/ u \in { << W(g) >> : g \in {"hi", "hello", "hey", "howdy"} }
    \/ u \in { << W("good"), W(g) >> : g \in {"morning", "afternoon", "evening"} }

\* booking_agent.py:283-284
IsHelpRequest(u) ==
    \/ HasWord(u, "help")
    \/ HasWords(u, << "what", "can", "you", "do" >>)
    \/ HasWords(u, << "how", "does", "this", "work" >>)
    \/ HasWords(u, << "show", "me", "examples" >>)

\* booking_agent.py:296-297
IsGoodbye(u) ==
    \/ HasWord(u, "bye") \/ HasWord(u, "goodbye") \/ HasWord(u, "thanks")
    \/ HasWords(u, << "thank", "you" >>)
    \/ HasWords(u, << "see", "you" >>)
    \/ HasWords(u, << "that's", "all" >>)

\* what get_cached_llm_response returns for the intent prompt: a JSON
\* object naming an intent, text that is no JSON, or nothing
Intents == { "schedule", "check_availability", "general_inquiry" }
\* "failed": the request raised and get_cached_llm_response returned None
LLMResponses == Intents \cup { "malformed", "empty", "failed" }

\* booking_agent.py:320-465, the retry loop from attempt a on; resp[a] is
\* the response of attempt a.  The result is the intent understood ("" when
\* none) and the template of the one message appended.
\* a variant whose last attempt gives up without a fallback message
IntentLoop_NoFallback(resp, a) ==
    LET good == { i \in a..2 : resp[i] \in Intents }
    IN  IF good = {} THEN [intent |-> "", reply |-> ""]
        ELSE [intent |-> resp[FirstOf(good)], reply |-> "intent_reply"]
RECURSIVE IntentLoop(_, _)
IntentLoop(resp, a) ==
    IF a > 2 THEN [intent |-> "", reply |-> ""]
    ELSE IF resp[a] \in Intents
         THEN [intent |-> resp[a], reply |-> "intent_reply"]
    ELSE IF a = 2 THEN [intent |-> "", reply |-> "intent_fallback"]
    ELSE IntentLoop(resp, a + 1)

understand_intent_node ==
    /\ pc = "understand_intent"
    /\ Enter("understand_intent")
    /\ LET text == LastUserMessage(messages)
           u == Tokens(text)
       IN  IF text = ""
           THEN UNCHANGED << messages, simple_greeting, user_intent >>
           ELSE IF IsSimpleGreeting(u)
           THEN /\ messages' = Append(messages, Asst("general_greeting"))
                /\ simple_greeting' = TRUE
                /\ UNCHANGED user_intent
           ELSE IF IsHelpRequest(u)
           THEN /\ messages' = Append(messages, Asst("help_response"))
                /\ simple_greeting' = TRUE
                /\ UNCHANGED user_intent
           ELSE IF IsGoodbye(u)
           THEN /\ messages' = Append(messages, Asst("goodbye_response"))
                /\ simple_greeting' = TRUE
                /\ UNCHANGED user_intent
           ELSE \E resp \in [0..2 -> LLMResponses] :
                    LET r == IntentLoop(resp, 0)
                    IN  /\ messages' = IF r.reply = "" THEN messages
                                        ELSE Append(messages, Asst(r.reply))
                        /\ user_intent' = r.intent
                        /\ UNCHANGED simple_greeting
    /\ Goto(after_understand_intent(error_message, simple_greeting'))
    /\ UNCHANGED << appointment_details, available_slots, booking_confirmed,
                    error_message, auto_selected_slot, attempt, envVars,
                    createLog, reverifyLog, gatewayLog, turns, fnVars >>

\* ---- booking_agent.py:469-562.  raises: an exception escapes the inner
\* handler and reaches the node's own except clause (558-560).
collect_details_node ==
    /\ pc = "collect_details"
    /\ Enter("collect_details")
    /\ \E raises \in BOOLEAN :
        LET text == LastUserMessage(messages)
            parsed_info == TP_parse_date_preference(Tokens(text), today_weekday)
        IN  IF raises
            THEN /\ error_message' = "Error collecting details"
                 /\ UNCHANGED << messages, appointment_details >>
            ELSE IF text = ""
            THEN UNCHANGED << messages, appointment_details, error_message >>
            ELSE IF toolRaises
            THEN /\ messages' = Append(messages, Asst("be_more_specific"))
                 /\ UNCHANGED << appointment_details, error_message >>
            ELSE /\ appointment_details' =
                        [appointment_details EXCEPT
                            !.target_day = parsed_info.target_day,
                            !.time_preference = parsed_info.time_preference,
                            !.start_hour = parsed_info.start_hour,
                            !.duration = parsed_info.duration,
                            !.parsed_input = text]
                 /\ messages' = Append(messages, Asst("details_understood"))
                 /\ UNCHANGED error_message
    /\ Goto(after_collect_details(error_message', appointment_details'))
    /\ UNCHANGED << user_intent, available_slots, booking_confirmed,
                    simple_greeting, auto_selected_slot, attempt, envVars,
                    createLog, reverifyLog, gatewayLog, turns, fnVars >>


\* ---- helpers of the slot nodes

\* strftime('%Y-%m-%d %H:%M') then fromisoformat: the seconds are dropped
FormatMinute(t) == t - (t % 60)

\* strftime('%I:%M %p').lower(): << hour on the 12-hour clock, minute, am|pm >>
Display12(t) ==
    LET h == HourOf(t)
    IN  << IF h % 12 = 0 THEN 12 ELSE h % 12,
           (t \div 60) % 60,
           IF h < 12 THEN "am" ELSE "pm" >>

\* a dict of slots_info; a key the dict does not hold is time << >>, number 0
SlotInfo(number, time, slot) ==
    [number |-> number, time |-> time, duration |-> slot.duration_minutes,
     start |-> FormatMinute(slot.start), end |-> FormatMinute(slot.end)]

\* booking_agent.py:651-680, the numbered display list of up to 8 slots
NumberedSlots(slots) ==
    [i \in 1..Len(Take(slots, 8)) |-> SlotInfo(i, Display12(slots[i].start), slots[i])]

\* booking_agent.py:862-870, up to 5 suggestions without number or time
PlainSlots(slots) ==
    [i \in 1..Len(Take(slots, 5)) |-> SlotInfo(0, << >>, slots[i])]

\* booking_agent.py:649-724 and 729-804
ShowSlots(available) ==
    IF available # << >>
    THEN [slots |-> NumberedSlots(available), reply |-> "slots_list"]
    ELSE [slots |-> << >>, reply |-> "no_slots_found"]

\* a variant that goes to the calendar whatever authenticate() returned
ServiceReady_Unchecked(auth) == TRUE
\* booking_agent.py:579, 857, 1012 (and calendar.py:156-158, 283-285): the
\* gateway's methods are called only when authenticate() returned True
ServiceReady(auth) == auth

\* the log once a node has made its GoogleCalendarManager and authenticate()
\* has returned auth on it
Authenticated(auth) ==
    Append(gatewayLog, [call |-> "authenticate", authenticated |-> auth])

\* after authenticate() the node calls methods of that instance, each of
\* which lists busy intervals or creates an event
Calls(methods, auth) ==
    gatewayLog' = Authenticated(auth) \o
                  [i \in DOMAIN methods |->
                      [call |-> methods[i], authenticated |-> auth]]

Called(method, auth) == Calls(<< method >>, auth)

\* authenticate() was the node's only call of the gateway
OnlyAuthenticated(auth) == gatewayLog' = Authenticated(auth)

\* ---- booking_agent.py:564-835.  raises: an exception reaches the node's
\* own except clause (831-833); auth: calendar_manager.authenticate().
check_availability_node ==
    /\ pc = "check_availability"
    /\ Enter("check_availability")
    /\ \E raises \in BOOLEAN, auth \in BOOLEAN, api \in { "ok", "http_error" } :
        LET text == LastUserMessage(messages)
            u == Tokens(text)
            suggested == suggest_time_slots(calendar, u, today_weekday, api)
            parsed_preference == TP_parse_date_preference(u, today_weekday)
            fallback == get_next_available_slots(
                            calendar,
                            [type |-> "datetime", day |-> appointment_details.target_day],
                            8, api)
            Fail(err) == /\ error_message' = err
                         /\ UNCHANGED << messages, appointment_details,
                                         available_slots, auto_selected_slot,
                                         gatewayLog >>
            Say(slots, reply) ==
                         /\ available_slots' = slots
                         /\ messages' = Append(messages, Asst(reply))
                         /\ UNCHANGED << error_message, appointment_details,
                                         auto_selected_slot >>
        IN  IF raises THEN Fail("Error checking availability")
            ELSE IF appointment_details = NoDetails
            THEN Fail("No appointment details available to check availability")
            ELSE IF appointment_details.target_day = 0
            THEN Fail("No target date specified")
            ELSE IF ~ServiceReady(auth)
            THEN /\ Say(<< >>, "calendar_trouble")
                 /\ OnlyAuthenticated(auth)
            ELSE IF text = ""
            THEN /\ Called("get_next_available_slots", auth)
                 /\ Say(ShowSlots(fallback.value).slots,
                        ShowSlots(fallback.value).reply)
            ELSE IF suggested.raised \/ toolRaises
            THEN /\ Called("suggest_time_slots", auth)
                 /\ Say(<< >>, "technical_issue")
            ELSE IF parsed_preference.time_preference = "specific time"
                    /\ suggested.value # << >>
            THEN LET best_slot == suggested.value[1]
                     slot_info == SlotInfo(1, Display12(best_slot.start), best_slot)
                 IN  /\ appointment_details' =
                            [appointment_details EXCEPT
                                !.title = "Appointment",
                                !.start_time = best_slot.start,
                                !.end_time = best_slot.end,
                                !.start_hour = HourOf(best_slot.start),
                                !.selected_slot = << slot_info >>]
                     /\ available_slots' = << slot_info >>
                     /\ auto_selected_slot' = TRUE
                     /\ messages' = Append(messages, Asst("auto_selected"))
                     /\ Called("suggest_time_slots", auth)
                     /\ UNCHANGED error_message
            ELSE /\ Called("suggest_time_slots", auth)
                 /\ Say(ShowSlots(suggested.value).slots,
                        ShowSlots(suggested.value).reply)
    /\ Goto(after_check_availability(error_message', auto_selected_slot',
                                     available_slots'))
    /\ UNCHANGED << user_intent, booking_confirmed, simple_greeting, attempt,
                    envVars, createLog, reverifyLog, turns, fnVars >>

\* ---- booking_agent.py:837-901
suggest_slots_node ==
    /\ pc = "suggest_slots"
    /\ Enter("suggest_slots")
    /\ \E raises \in BOOLEAN, auth \in BOOLEAN, api \in { "ok", "http_error" } :
        LET text == LastUserMessage(messages)
            suggested == suggest_time_slots(calendar, Tokens(text),
                                            today_weekday, api)
            Say(slots, reply) ==
                         /\ available_slots' = slots
                         /\ messages' = Append(messages, Asst(reply))
                         /\ UNCHANGED error_message
        IN  IF raises
            THEN /\ error_message' = "Error suggesting slots"
                 /\ UNCHANGED << messages, available_slots, gatewayLog >>
            ELSE IF text = ""
            THEN UNCHANGED << messages, available_slots, error_message,
                              gatewayLog >>
            ELSE IF ~ServiceReady(auth)
            THEN /\ Say(<< >>, "error_calendar")
                 /\ OnlyAuthenticated(auth)
            ELSE /\ Called("suggest_time_slots", auth)
                 /\ IF suggested.raised THEN Say(<< >>, "error_general")
                    ELSE IF suggested.value # << >>
                    THEN Say(PlainSlots(suggested.value), "slot_suggestion")
                    ELSE Say(<< >>, "no_availability")
    /\ Goto(after_suggest_slots(error_message', available_slots'))
    /\ UNCHANGED << user_intent, appointment_details, booking_confirmed,
                    simple_greeting, auto_selected_slot, attempt, envVars,
                    createLog, reverifyLog, turns, fnVars >>

\* ---- booking_agent.py:903-988

IsNumeric(tok) == tok.k = "n" \/ tok.k = "t"

\* booking_agent.py:924-926, re.search(r'(?:slot\s+)?(\d+)'): the first run
\* of digits of the text, 0 when it has none.  A time begins with its hour.
FirstNumber(u) ==
    LET i == FirstOf({ j \in DOMAIN u : IsNumeric(u[j]) })
    IN  IF i = 0 THEN 0 ELSE u[i].h

\* booking_agent.py:933, slot.get('time', '').lower() in text
TimeInText(time, u) ==
    \/ time = << >>
    \/ \E i \in DOMAIN u :
           /\ u[i].k = "t" /\ u[i].lit
           /\ << u[i].h, u[i].m, u[i].p >> = time

\* booking_agent.py:920-935, the index of the slot selected, 0 for none
SlotSelected(slots, u) ==
    IF slots = << >> THEN 0
    ELSE IF FirstNumber(u) \in 1..Len(slots)
    THEN FirstNumber(u)
    ELSE IF \E i \in DOMAIN slots : TimeInText(slots[i].time, u)
    THEN CHOOSE i \in DOMAIN slots :
             /\ TimeInText(slots[i].time, u)
             /\ \A j \in 1..(i - 1) : ~TimeInText(slots[j].time, u)
    ELSE 0

\* booking_agent.py:938-939
IsConfirming(u) ==
    \/ \E w \in { "yes", "confirm", "book", "schedule", "okay", "sure", "perfect" } :
           HasWord(u, w)
    \/ HasWords(u, << "that", "works" >>)

\* a variant that takes the start from the slot and leaves the end unset
SelectedTimes_StartOnly(slot) == [start_time |-> slot.start, end_time |-> -1]
\* booking_agent.py:943-944, 952-953: both times are read from the slot
\* selected and written in one update
SelectedTimes(slot) == [start_time |-> slot.start, end_time |-> slot.end]

confirm_booking_node ==
    /\ pc = "confirm_booking"
    /\ Enter("confirm_booking")
    /\ \E raises \in BOOLEAN :
        LET text == LastUserMessage(messages)
            u == Tokens(text)
            k == SlotSelected(available_slots, u)
        IN  IF raises
            THEN /\ error_message' = "Error confirming booking"
                 /\ UNCHANGED << messages, appointment_details >>
            ELSE IF text = ""
            THEN UNCHANGED << messages, appointment_details, error_message >>
            ELSE IF k # 0
            THEN /\ appointment_details' =
                        [appointment_details EXCEPT
                            !.title = "Appointment",
                            !.start_time =
                                SelectedTimes(available_slots[k]).start_time,
                            !.end_time =
                                SelectedTimes(available_slots[k]).end_time,
                            !.start_hour = HourOf(available_slots[k].start),
                            !.selected_slot = << available_slots[k] >>]
                 /\ messages' = Append(messages, Asst("slot_selection_confirmation"))
                 /\ UNCHANGED error_message
            ELSE /\ messages' = Append(messages, Asst(
                        IF IsConfirming(u)
                        THEN IF appointment_details.start_time # -1
                                /\ appointment_details.end_time # -1
                             THEN "processing_response"
                             ELSE "clarification_needed"
                        ELSE IF available_slots # << >>
                             THEN "slot_suggestion"
                             ELSE "clarification_general"))
                 /\ UNCHANGED << appointment_details, error_message >>
    /\ Goto(after_confirm_booking(error_message', appointment_details'))
    /\ UNCHANGED << user_intent, available_slots, booking_confirmed,
                    simple_greeting, auto_selected_slot, attempt, envVars,
                    createLog, reverifyLog, gatewayLog, turns, fnVars >>


\* ---- booking_agent.py:990-1082

\* the intended slot is free in the calendar: the gateway's own test,
\* calendar.py:309-316
SlotFree(cal, start_time, end_time) ==
    check_availability(cal, start_time, end_time,
                       (end_time - start_time) \div 60, "ok") # << >>

\* booking_agent.py:1019-1025, the reverification of a retry: "raised",
\* "passed" (slot_still_available) or "failed"
Reverify(cal, start_time, api) ==
    LET got == get_next_available_slots(
                   cal, [type |-> "date", day |-> DayOf(start_time)], 1, api)
    IN  IF got.raised THEN "raised"
        ELSE IF \E i \in DOMAIN got.value :
                    Abs(got.value[i].start - start_time) < ReverifyToleranceSeconds
             THEN "passed" ELSE "failed"

\* a variant with two more attempts
MayRetry_OneMore(a) == a < max_booking_attempts + 2
\* booking_agent.py:1055, 1061, 1068: attempt < max_booking_attempts
MayRetry(a) == a < max_booking_attempts

\* a variant that confirms whatever the result
Confirmed_Always(result) == TRUE
\* booking_agent.py:1037-1038: the result decides booking_confirmed
Confirmed(result) == result.success

\* One iteration of the loop of lines 1008-1071; the first one also runs the
\* guards of lines 993-1004.  raises: an exception reaches the node's own
\* except clause (1078-1080); auth: calendar_manager.authenticate();
\* exc: an exception inside the loop's try before the gateway is called.
book_appointment_node ==
    /\ pc = "book_appointment"
    /\ IF attempt = 0 THEN Enter("book_appointment") ELSE UNCHANGED visited
    /\ \E raises \in BOOLEAN, auth \in BOOLEAN, exc \in BOOLEAN, api \in ApiOutcomes :
        LET start_time == appointment_details.start_time
            end_time == appointment_details.end_time
            outcome == Reverify(calendar, start_time, api)
            result == gateway_book_appointment(calendar, start_time, end_time, api)
            Fail(err) == /\ error_message' = err
                         /\ Goto(after_book_appointment(err))
                         /\ UNCHANGED << messages, booking_confirmed, attempt,
                                         calendar, createLog, reverifyLog,
                                         gatewayLog >>
            Finish(reply) ==
                         /\ messages' = Append(messages, Asst(reply))
                         /\ Goto(after_book_appointment(error_message))
                         /\ UNCHANGED << error_message, attempt >>
            Retry ==     /\ attempt' = attempt + 1
                         /\ UNCHANGED << messages, error_message, pc >>
            RetryOr(reply) == IF MayRetry(attempt) THEN Retry ELSE Finish(reply)
            Verified(free, how) ==
                reverifyLog' = Append(reverifyLog,
                                      [attempt |-> attempt, free |-> free,
                                       outcome |-> how])
        IN  IF attempt = 0 /\ raises
            THEN Fail("Error booking appointment")
            ELSE IF attempt = 0 /\ appointment_details = NoDetails
            THEN Fail("No appointment details available for booking")
            ELSE IF attempt = 0
                    /\ (appointment_details.title = "" \/ start_time = -1
                        \/ end_time = -1)
            THEN Fail("Missing required appointment details")
            ELSE IF ~ServiceReady(auth)
            THEN /\ RetryOr("error_calendar")
                 /\ OnlyAuthenticated(auth)
                 /\ UNCHANGED << booking_confirmed, calendar, createLog,
                                 reverifyLog >>
            ELSE IF exc
            THEN /\ RetryOr("error_general")
                 /\ OnlyAuthenticated(auth)
                 /\ UNCHANGED << booking_confirmed, calendar, createLog,
                                 reverifyLog >>
            ELSE IF attempt > 0 /\ outcome = "raised"
            THEN /\ Verified(SlotFree(calendar, start_time, end_time), outcome)
                 /\ Called("get_next_available_slots", auth)
                 /\ RetryOr("error_general")
                 /\ UNCHANGED << booking_confirmed, calendar, createLog >>
            ELSE IF attempt > 0 /\ outcome = "failed"
            THEN /\ Verified(SlotFree(calendar, start_time, end_time), outcome)
                 /\ Called("get_next_available_slots", auth)
                 /\ Finish("no_availability")
                 /\ UNCHANGED << booking_confirmed, calendar, createLog >>
            ELSE /\ IF attempt > 0
                    THEN /\ Verified(SlotFree(calendar, start_time, end_time),
                                     outcome)
                         /\ Calls(<< "get_next_available_slots",
                                     "book_appointment" >>, auth)
                    ELSE /\ UNCHANGED reverifyLog
                         /\ Called("book_appointment", auth)
                 /\ createLog' = Append(createLog,
                                        [attempt |-> attempt,
                                         success |-> result.success])
                 /\ calendar' = result.cal
                 /\ booking_confirmed' = Confirmed(result)
                 /\ IF result.success THEN Finish("booking_confirmation")
                    ELSE RetryOr("error_booking")
    /\ UNCHANGED << user_intent, appointment_details, available_slots,
                    simple_greeting, auto_selected_slot, today_weekday,
                    toolRaises, turns, fnVars >>

\* ---- booking_agent.py:1084-1103

\* booking_agent.py:1089-1096, the reply chosen from the words of the error
HandleErrorReply(err) ==
    CASE err = "Error checking availability" -> "error_calendar"
      [] err = "No appointment details available to check availability" ->
            "error_calendar"
      [] err \in { "Error confirming booking", "Error booking appointment",
                   "No appointment details available for booking" } ->
            "error_booking"
      [] OTHER -> "error_general"

\* a variant that answers with the error reply alone, dropping the history
handle_error_node_Replaces ==
    /\ pc = "handle_error"
    /\ Enter("handle_error")
    /\ messages' = << Asst(HandleErrorReply(error_message)) >>
    /\ Goto(after_handle_error)
    /\ UNCHANGED << user_intent, appointment_details, available_slots,
                    booking_confirmed, error_message, simple_greeting,
                    auto_selected_slot, attempt, envVars, createLog,
                    reverifyLog, gatewayLog, turns, fnVars >>
\* booking_agent.py:1084-1103
handle_error_node ==
    /\ pc = "handle_error"
    /\ Enter("handle_error")
    /\ messages' = Append(messages, Asst(HandleErrorReply(error_message)))
    /\ Goto(after_handle_error)
    /\ UNCHANGED << user_intent, appointment_details, available_slots,
                    booking_confirmed, error_message, simple_greeting,
                    auto_selected_slot, attempt, envVars, createLog,
                    reverifyLog, gatewayLog, turns, fnVars >>

\* ---- the calendar is shared: somebody else books an hour while the
\* agent is between two calls of the gateway
ExternalEvents ==
    { [start |-> At(1, 13, 30, 0), end |-> At(1, 14, 30, 0)],
      [start |-> At(1, 9, 0, 0), end |-> At(1, 10, 0, 0)] }

ExternalBooking ==
    /\ pc = "book_appointment"
    /\ Cardinality(calendar) < MaxEvents
    /\ \E ev \in ExternalEvents \ calendar : calendar' = calendar \cup { ev }
    /\ UNCHANGED << agentVars, ctlVars, today_weekday, toolRaises, histVars,
                    fnVars >>

InitialCalendars ==
    { {}, { [start |-> At(1, 14, 0, 0), end |-> At(1, 15, 0, 0)] } }

Init ==
    /\ FreshAgent
    /\ pc = "idle"
    /\ attempt = 0
    /\ calendar \in InitialCalendars
    /\ today_weekday = 0
    /\ toolRaises = FALSE
    /\ visited = << >>
    /\ createLog = << >>
    /\ reverifyLog = << >>
    /\ gatewayLog = << >>
    /\ turns = 0
    /\ fnIn = [op |-> "none", done |-> TRUE]
    /\ fnOut = Returned(<< >>)

Next ==
    \/ Chat
    \/ greeting_node
    \/ understand_intent_node
    \/ collect_details_node
    \/ check_availability_node
    \/ suggest_slots_node
    \/ confirm_booking_node
    \/ book_appointment_node
    \/ handle_error_node
    \/ ExternalBooking

Spec == Init /\ [][Next]_vars


\* the nodes' steps are taken as long as an invocation is running
Step ==
    \/ greeting_node
    \/ understand_intent_node
    \/ collect_details_node
    \/ check_availability_node
    \/ suggest_slots_node
    \/ confirm_booking_node
    \/ book_appointment_node
    \/ handle_error_node

FairSpec == Init /\ [][Next]_vars /\ WF_vars(Step)

-----------------------------------------------------------------------------
(* Properties of the conversation graph                                    *)

Last(seq) == seq[Len(seq)]

AssistantCount(msgs) ==
    Cardinality({ i \in DOMAIN msgs : msgs[i].role = "assistant" })

\* an invocation has run and has ended
Ended == pc = "idle" /\ turns > 0

\* C1: once a stage has set the error field, the next stage executed is
\* handle_error, the invocation ends right after it, and no other stage runs
\* while the error is set.
C1_ErrorRoutesToHandleError ==
    [][ /\ (error_message = "" /\ error_message' # "") => pc' = "handle_error"
        /\ (error_message # "" /\ pc # "idle") =>
               /\ visited' = Append(visited, "handle_error")
               /\ pc' = "idle" ]_vars

C1_Witness ==
    /\ Ended
    /\ error_message # ""
    /\ Len(visited) >= 4
    /\ Last(visited) = "handle_error"

\* C2: booking_confirmed is true only after a create-event call of the same
\* invocation returned success, and it becomes true only in book_appointment,
\* in the step that records that successful call.
C2_ConfirmedOnlyAfterSuccess ==
    /\ [](booking_confirmed => \E i \in DOMAIN createLog : createLog[i].success)
    /\ [][ (~booking_confirmed /\ booking_confirmed') =>
              /\ pc = "book_appointment"
              /\ createLog' = Append(createLog, [attempt |-> attempt,
                                                 success |-> TRUE]) ]_vars

C2_Witness == Ended /\ booking_confirmed /\ createLog # << >>

\* C3 as claimed: an invocation appends exactly one assistant message,
\* whatever the path.
C3_ExactlyOneMessage == Ended => AssistantCount(messages) = 1

\* C3 amended: an invocation appends one assistant message for every stage
\* it executed, except the stage that set the error: at least two (greeting
\* and understand_intent each append one) and at most six; the utterance "hi"
\* yields exactly two and sets simple_greeting.
C3_OneMessagePerStage ==
    /\ AssistantCount(messages) <= Len(visited)
    /\ Ended =>
          /\ AssistantCount(messages) =
                 Len(visited) - (IF error_message # "" THEN 1 ELSE 0)
          /\ AssistantCount(messages) \in 2..6
          /\ LastUserMessage(messages) = "hi" =>
                 /\ AssistantCount(messages) = 2
                 /\ simple_greeting

C3_Witness ==
    /\ Ended
    /\ LastUserMessage(messages) = "hi"
    /\ AssistantCount(messages) = 2
    /\ visited = << "greeting", "understand_intent" >>

\* the place of a stage in the order of the graph
Rank(stage) ==
    CASE stage = "greeting" -> 1
      [] stage = "understand_intent" -> 2
      [] stage = "collect_details" -> 3
      [] stage \in { "check_availability", "suggest_slots" } -> 4
      [] stage = "confirm_booking" -> 5
      [] stage = "book_appointment" -> 6
      [] stage = "handle_error" -> 7

\* C4: every invocation ends; its stages run in the order greeting,
\* understand_intent, collect_details, (check_availability | suggest_slots),
\* confirm_booking, book_appointment, handle_error, each at most once.
C4_AcyclicAndTerminates ==
    /\ [](\A i, j \in DOMAIN visited : i < j => Rank(visited[i]) < Rank(visited[j]))
    /\ (pc # "idle") ~> (pc = "idle")

C4_Witness ==
    /\ Ended
    /\ visited = << "greeting", "understand_intent", "collect_details",
                    "check_availability", "confirm_booking", "book_appointment" >>

\* C5: book_appointment calls create-event at most 3 times in an invocation;
\* it starts another attempt only after an attempt that did not succeed; and
\* no create-event call follows a successful one.
C5_AtMostThreeAttempts ==
    /\ [](/\ attempt <= max_booking_attempts
          /\ Len(createLog) <= max_booking_attempts + 1
          /\ \A i \in DOMAIN createLog : createLog[i].success => i = Len(createLog))
    /\ [][ attempt' > attempt =>
              /\ pc = "book_appointment"
              /\ attempt' = attempt + 1
              /\ ~booking_confirmed'
              /\ createLog' # createLog => ~Last(createLog').success ]_vars
    /\ [][ (createLog' # createLog /\ createLog' # << >>) =>
              ~booking_confirmed ]_vars

C5_Witness ==
    /\ Ended
    /\ attempt = max_booking_attempts
    /\ createLog # << >>
    /\ ~booking_confirmed

\* C6: when the reverification of a retry finds the intended slot taken,
\* create-event is not called again, the final assistant message reports
\* unavailability, booking_confirmed stays false and error stays unset.
C6_TakenSlotReportsUnavailability ==
    (Ended /\ \E i \in DOMAIN reverifyLog : ~reverifyLog[i].free) =>
        /\ Last(messages).content = "no_availability"
        /\ ~booking_confirmed
        /\ error_message = ""
        /\ \A i \in DOMAIN reverifyLog, j \in DOMAIN createLog :
               ~reverifyLog[i].free => createLog[j].attempt < reverifyLog[i].attempt

\* C7: the reverification of a retry passes exactly when the intended slot
\* is still free in the calendar, and create-event is then attempted again.
C7_ReverifyPassesIffFree ==
    \A i \in DOMAIN reverifyLog :
        /\ reverifyLog[i].outcome = "passed" <=> reverifyLog[i].free
        /\ (reverifyLog[i].free /\ (Ended \/ attempt > reverifyLog[i].attempt)) =>
               \E j \in DOMAIN createLog :
                   createLog[j].attempt = reverifyLog[i].attempt


\* check_availability has just run and the gateway answered with slots
Offered ==
    /\ visited # << >>
    /\ Last(visited) = "check_availability"
    /\ available_slots # << >>

\* C12: the utterance "book a meeting tomorrow at 2pm" with no busy interval
\* on the target day gives appointment.start_hour = 14, auto_selected_slot
\* true and exactly one candidate slot, 14:00-15:00.
C12_ExplicitTimeAutoSelects ==
    (/\ Offered
     /\ LastUserMessage(messages) = "book a meeting tomorrow at 2pm"
     /\ calendar = {}) =>
        /\ appointment_details.start_hour = 14
        /\ auto_selected_slot
        /\ Len(available_slots) = 1
        /\ available_slots[1].start = At(1, 14, 0, 0)
        /\ available_slots[1].end = At(1, 15, 0, 0)

\* the user's reply is a bare number
IsNumberReply(msgs) ==
    Tokens(LastUserMessage(msgs)) \in { << N(n) >> : n \in 0..9 }

NumberReply == IsNumberReply(messages)

\* C13: in confirm_booking, a reply that is a number n with 1 <= n <= length
\* of candidate_slots sets selected_slot to the n-th slot shown and takes
\* start_time and end_time from it; a number outside that range selects
\* nothing.
C13_NumberSelectsSlot ==
    [][ (/\ pc = "confirm_booking" /\ pc' # "confirm_booking"
         /\ error_message' = ""
         /\ NumberReply) =>
            LET n == FirstNumber(Tokens(LastUserMessage(messages)))
            IN  IF n \in 1..Len(available_slots)
                THEN /\ appointment_details'.selected_slot = << available_slots[n] >>
                     /\ appointment_details'.start_time = available_slots[n].start
                     /\ appointment_details'.end_time = available_slots[n].end
                ELSE appointment_details' = appointment_details ]_vars


\* C14: the list a selection reply is resolved against is the list last
\* shown: when a turn has displayed an offer and the next turn brings the
\* user's selection, candidate_slots is carried into that turn unchanged.
C14_OfferKeptForSelection ==
    [][ (/\ pc = "idle" /\ pc' = "greeting"
         /\ available_slots # << >>
         /\ ~booking_confirmed
         /\ IsNumberReply(messages')) =>
            available_slots' = available_slots ]_vars


\* understand_intent has just run past its pre-filters and no attempt of
\* the retry loop produced an intent
NoIntentUnderstood ==
    /\ visited # << >>
    /\ Last(visited) = "understand_intent"
    /\ ~simple_greeting
    /\ user_intent = ""

\* C15: when the model's response is malformed, empty or failed on every
\* attempt, understand_intent still completes (it hands the state on to the
\* router) and its output has a fallback assistant message or the error
\* set, never neither.
C15_FallbackOrError ==
    [][ (/\ pc = "understand_intent"
         /\ NoIntentUnderstood') =>
            /\ pc' = after_understand_intent(error_message', simple_greeting')
            /\ \/ messages' = Append(messages, Asst("intent_fallback"))
               \/ error_message' # "" ]_vars

C15_Witness ==
    /\ NoIntentUnderstood
    /\ Last(messages) = Asst("intent_fallback")
    /\ pc = "collect_details"


\* booking_agent.py:269-306, the reply of the pre-filter that answers the
\* utterance, "" when none does
PreFilterReply(u) ==
    IF IsSimpleGreeting(u) THEN "general_greeting"
    ELSE IF IsHelpRequest(u) THEN "help_response"
    ELSE IF IsGoodbye(u) THEN "goodbye_response"
    ELSE ""

\* C16: when the last user utterance is a simple greeting or holds a help
\* or goodbye keyword, understand_intent sets simple_greeting and answers
\* from its canned replies with no model call (no intent is stored and the
\* reply is none of the model-driven ones); the invocation ends right
\* after understand_intent, having run no node that calls the gateway, and
\* appointment_details and available_slots are unchanged.
C16_PreFilterEndsTurn ==
    [][ (/\ pc = "understand_intent"
         /\ PreFilterReply(Tokens(LastUserMessage(messages))) # "") =>
            /\ simple_greeting'
            /\ user_intent' = user_intent
            /\ messages' = Append(messages,
                    Asst(PreFilterReply(Tokens(LastUserMessage(messages)))))
            /\ pc' = "idle"
            /\ visited' = << "greeting", "understand_intent" >>
            /\ gatewayLog' = << >>
            /\ appointment_details' = appointment_details
            /\ available_slots' = available_slots ]_vars

C16_Witness ==
    /\ Ended
    /\ simple_greeting
    /\ Last(messages) = Asst("goodbye_response")
    /\ visited = << "greeting", "understand_intent" >>


\* C17: in every reachable state the error and the confirmation exclude
\* each other: error_message is never set while booking_confirmed is true,
\* so no invocation ends with both.
C17_ErrorExcludesConfirmed ==
    ~(error_message # "" /\ booking_confirmed)

\* book_appointment itself has set the error, and nothing is confirmed
C17_Witness ==
    /\ Ended
    /\ error_message # ""
    /\ ~booking_confirmed
    /\ \E i \in DOMAIN visited : visited[i] = "book_appointment"


\* the entries of the log made on the instance of entry i: those from the
\* last authenticate at or before i
InstanceStart(log, i) ==
    FirstOf({ j \in 1..i : /\ log[j].call = "authenticate"
                            /\ \A k \in (j + 1)..i : log[k].call # "authenticate" })

\* authenticate() has just returned False in check_availability
AuthFailedInAvailabilityCheck ==
    /\ visited # << >>
    /\ Last(visited) = "check_availability"
    /\ gatewayLog # << >>
    /\ Last(gatewayLog) = [call |-> "authenticate", authenticated |-> FALSE]

\* C18: every call of a gateway method that lists busy intervals or
\* creates an event is made on an instance on which authenticate() was
\* called before and returned true; and when authenticate() returns false
\* in check_availability, the node answers with the calendar-unavailable
\* message, available_slots is empty, nothing is booked, no error is
\* raised or set, and the invocation ends.
C18_AuthenticateFirst ==
    /\ [](\A i \in DOMAIN gatewayLog :
              gatewayLog[i].call # "authenticate" =>
                  /\ InstanceStart(gatewayLog, i) # 0
                  /\ gatewayLog[InstanceStart(gatewayLog, i)].authenticated)
    /\ [][ (pc = "check_availability" /\ AuthFailedInAvailabilityCheck') =>
              /\ messages' = Append(messages, Asst("calendar_trouble"))
              /\ available_slots' = << >>
              /\ ~booking_confirmed' /\ createLog' = << >>
              /\ calendar' = calendar
              /\ error_message' = ""
              /\ pc' = "idle" ]_vars

C18_Witness ==
    /\ AuthFailedInAvailabilityCheck
    /\ Ended
    /\ Last(messages) = Asst("calendar_trouble")


\* a node of the invocation has run
Ran(name) == \E i \in DOMAIN visited : visited[i] = name

\* the invocation met an internal failure: the parser raised in
\* collect_details, the last authenticate() returned false, or the retry
\* loop of book_appointment ran out of attempts without a booking
StageFailed ==
    \/ toolRaises /\ Ran("collect_details")
    \/ gatewayLog # << >> /\ ~Last(gatewayLog).authenticated
    \/ /\ Ran("book_appointment")
       /\ attempt = max_booking_attempts
       /\ ~booking_confirmed
       /\ Last(messages) # Asst("no_availability")

\* C19: an invocation in which a stage met an internal failure (parser
\* exception, authentication failure, gateway exception, exhausted booking
\* retries) ends with the error set and handle_error as its last stage.
C19_FailuresBecomeErrors ==
    (Ended /\ StageFailed) =>
        /\ error_message # ""
        /\ Last(visited) = "handle_error"


\* booking_agent.py:238-243, the hour test of validate_appointment_request
ValidHour(hour) ==
    /\ ~(hour < 0 \/ hour > 23)
    /\ ~(hour < business_start \/ hour > business_end)

\* the request names a clock time whose hour fails the validation
RequestOutOfBounds ==
    LET text == LastUserMessage(messages)
        resolved == DP_parse_date_preference(Tokens(text), today_weekday)
    IN  /\ text # ""
        /\ resolved.time_preference = "specific time"
        /\ ~ValidHour(resolved.start_hour)

\* C20: when the time a request resolves to lies outside the allowed
\* bounds (here: a start hour outside business hours), the invocation
\* calls no gateway method that searches availability or books, and it
\* ends having told the user of a validation error.
C20_OutOfBoundsRejected ==
    RequestOutOfBounds =>
        /\ \A i \in DOMAIN gatewayLog : gatewayLog[i].call = "authenticate"
        /\ Ended => /\ Last(messages).role = "assistant"
                    /\ Last(messages).content = "validation_error"


-----------------------------------------------------------------------------
(* The two parsers as functions of the utterance and of today's weekday    *)

\* the utterances parsed.  The time expressions have valid hours and
\* minutes, an hour above 12 (above 23) and a minute above 59.
ParseUtterances ==
    { << W("next"), W(Weekdays[i]) >> : i \in 1..7 }
    \cup { << W("next"), W(Weekdays[i]), W("next"), W("week") >> : i \in 1..7 }
    \cup { << W("tomorrow"), W("next"), W(Weekdays[i]) >> : i \in 1..7 }
    \cup { << W("next"), W("week") >>, << W("next"), W("day") >>,
           << W("tomorrow") >>, << W("book"), W("a"), W("meeting") >> }
    \cup { << W("at"), T12(h, m, p) >> :
               h \in 0..13, m \in { -1, 0, 30, 59, 60, 75 },
               p \in { "am", "pm" } }
    \cup { << W("at"), T24(h, m) >> :
               h \in { 0, 9, 23, 24, 30 }, m \in { 0, 30, 59, 60, 75 } }
    \cup { << W("tomorrow"), W(w) >> : w \in { "morning", "afternoon", "evening" } }

InitParser ==
    /\ FreshAgent
    /\ pc = "idle"
    /\ attempt = 0
    /\ calendar = {}
    /\ today_weekday \in 0..6
    /\ toolRaises = FALSE
    /\ visited = << >>
    /\ createLog = << >>
    /\ reverifyLog = << >>
    /\ gatewayLog = << >>
    /\ turns = 0
    /\ fnIn \in { [op |-> "parse", done |-> FALSE, utterance |-> u] :
                     u \in ParseUtterances }
    /\ fnOut = Returned(<< >>)

\* both parse_date_preference functions applied to the utterance
ApplyParse ==
    /\ fnIn.op = "parse" /\ ~ fnIn.done
    /\ fnIn' = [fnIn EXCEPT !.done = TRUE]
    /\ fnOut' = [raised |-> FALSE, value |-> << >>,
                 date_parser |-> DP_parse_date_preference(fnIn.utterance,
                                                          today_weekday),
                 tools |-> TP_parse_date_preference(fnIn.utterance,
                                                    today_weekday)]
    /\ UNCHANGED << agentVars, ctlVars, envVars, histVars >>

ParserSpec == InitParser /\ [][ApplyParse]_vars

\* the utterance parsed
Parsed(u) == fnIn.op = "parse" /\ fnIn.done /\ fnIn.utterance = u

\* C21: for every weekday of today and every weekday named in "next
\* <weekday>", each parser's day offset is ((target - today) mod 7) with 0
\* replaced by 7: it lies in 1..7, the resolved day falls on the named
\* weekday, and it is 7 when today is that weekday.
C21_NextWeekdayOffset ==
    \A i \in 1..7 :
        Parsed(<< W("next"), W(Weekdays[i]) >>) =>
            \A offset \in { fnOut.date_parser.target_day, fnOut.tools.target_day } :
                /\ offset = (IF ((i - 1) - today_weekday) % 7 = 0 THEN 7
                             ELSE ((i - 1) - today_weekday) % 7)
                /\ offset \in 1..7
                /\ (today_weekday + offset) % 7 = i - 1
                /\ today_weekday = i - 1 => offset = 7


\* C22: for an utterance with a 12-hour time expression H[:MM] am|pm (H in
\* 1..12, MM in 00..59) date_parser's result is tagged a specific time and
\* carries the standard 24-hour hour and the minute: pm with H # 12 gives
\* H + 12, 12 am gives 0, 12 pm gives 12, am with H # 12 gives H, and a
\* missing minute is 0.
C22_TwelveHourClock ==
    \A h \in 1..12, m \in -1..59, p \in { "am", "pm" } :
        Parsed(<< W("at"), T12(h, m, p) >>) =>
            /\ fnOut.date_parser.time_preference = "specific time"
            /\ fnOut.date_parser.start_hour =
                   (CASE p = "pm" /\ h # 12 -> h + 12
                      [] p = "pm" /\ h = 12 -> 12
                      [] p = "am" /\ h = 12 -> 0
                      [] OTHER -> h)
            /\ fnOut.date_parser.minute = (IF m = -1 THEN 0 ELSE m)

\* "2:30 pm" was parsed to 14:30
C22_Witness ==
    /\ Parsed(<< W("at"), T12(2, 30, "pm") >>)
    /\ fnOut.date_parser.start_hour = 14
    /\ fnOut.date_parser.minute = 30


\* C23: a numeric time outside the valid ranges is ignored: whatever the
\* utterance, date_parser's start_hour lies in 0..23, and an expression
\* with a 12-hour hour above 12, a 24-hour hour above 23 or a minute above
\* 59 is never tagged a specific time.
C23_OutOfRangeTimeIgnored ==
    (fnIn.op = "parse" /\ fnIn.done) =>
        /\ fnOut.date_parser.start_hour \in 0..23
        /\ \A i \in DOMAIN fnIn.utterance :
               LET tok == fnIn.utterance[i]
               IN  (/\ tok.k = "t"
                    /\ \/ tok.m > 59
                       \/ tok.p # "" /\ tok.h > 12
                       \/ tok.p = "" /\ tok.h > 23) =>
                       fnOut.date_parser.time_preference # "specific time"


-----------------------------------------------------------------------------
(* The module-level llm_cache of booking_agent.py, which every session of  *)
(* the process reads and writes                                            *)

\* booking_agent.py:51-65.  cache is llm_cache; answer is what the model
\* would return now, "failed" when the request raises (None is returned
\* and nothing is stored).  The result is the response and the cache after.
get_cached_llm_response(cache, cache_key, answer) ==
    IF cache_key \in DOMAIN cache
    THEN [response |-> cache[cache_key], cache |-> cache]
    ELSE IF answer = "failed"
    THEN [response |-> "failed", cache |-> cache]
    ELSE [response |-> answer,
          cache |-> [k \in DOMAIN cache \cup { cache_key } |->
                        IF k = cache_key THEN answer ELSE cache[k]]]

\* booking_agent.py:323, the key of attempt a: f"intent_{text[:50]}_{a}"
\* (the utterances here are shorter than 50 characters)
IntentKey(text, a) == << "intent", text, a >>

\* the responses the attempts of one understand_intent see; the keys of
\* different attempts differ, so an attempt does not read what an earlier
\* attempt of the same turn stored
SeenResponses(cache, text, answers) ==
    [a \in 0..2 |->
        get_cached_llm_response(cache, IntentKey(text, a), answers[a]).response]

\* llm_cache after the understand_intent of a turn: the attempts run until
\* one yields an intent, each storing its answer
CacheAfterTurn(cache, text, answers) ==
    LET seen == SeenResponses(cache, text, answers)
        made == { a \in 0..2 : \A b \in 0..(a - 1) : seen[b] \notin Intents }
        stored == { a \in made : get_cached_llm_response(
                                     cache, IntentKey(text, a), answers[a]).cache
                                 # cache }
    IN  [k \in DOMAIN cache \cup { IntentKey(text, a) : a \in stored } |->
            IF k \in DOMAIN cache THEN cache[k] ELSE answers[k[3]]]

\* the model's answers to the three attempts of a turn
ModelAnswers == [0..2 -> { "schedule", "check_availability", "malformed", "failed" }]

\* an empty llm_cache, as at process start
EmptyCache == [k \in {} |-> ""]

InitCache ==
    /\ FreshAgent
    /\ pc = "idle"
    /\ attempt = 0
    /\ calendar = {}
    /\ today_weekday = 0
    /\ toolRaises = FALSE
    /\ visited = << >>
    /\ createLog = << >>
    /\ reverifyLog = << >>
    /\ gatewayLog = << >>
    /\ turns = 0
    /\ fnIn \in { [op |-> "intent", done |-> FALSE, other_text |-> o,
                    other_answers |-> oa, text |-> t, answers |-> an] :
                     o \in { "yes book it", "tomorrow at 8pm" },
                     t \in { "yes book it", "tomorrow at 8pm" },
                     oa \in ModelAnswers, an \in ModelAnswers }
    /\ fnOut = [raised |-> FALSE, value |-> << >>, llm_cache |-> EmptyCache,
                stage |-> "start",
                alone |-> [intent |-> "", reply |-> ""],
                after |-> [intent |-> "", reply |-> ""]]

\* another session's turn runs understand_intent first
OtherSessionTurn ==
    /\ fnIn.op = "intent" /\ fnOut.stage = "start"
    /\ fnOut' = [fnOut EXCEPT
                    !.llm_cache = CacheAfterTurn(@, fnIn.other_text,
                                                 fnIn.other_answers),
                    !.stage = "other session done"]
    /\ UNCHANGED << fnIn, agentVars, ctlVars, envVars, histVars >>

\* the turn under study runs understand_intent: `after` is its outcome in
\* this process, `alone` its outcome in a process that served nobody else
ThisSessionTurn ==
    /\ fnIn.op = "intent" /\ fnOut.stage = "other session done"
    /\ fnIn' = [fnIn EXCEPT !.done = TRUE]
    /\ fnOut' = [fnOut EXCEPT
                    !.llm_cache = CacheAfterTurn(@, fnIn.text, fnIn.answers),
                    !.stage = "done",
                    !.alone = IntentLoop(SeenResponses(EmptyCache, fnIn.text,
                                                       fnIn.answers), 0),
                    !.after = IntentLoop(SeenResponses(fnOut.llm_cache, fnIn.text,
                                                       fnIn.answers), 0)]
    /\ UNCHANGED << agentVars, ctlVars, envVars, histVars >>

CacheSpec == InitCache /\ [][OtherSessionTurn \/ ThisSessionTurn]_vars

\* C24: the outcome of a turn (the intent stored and the assistant message,
\* which fix the routing) is the same whatever turns other sessions ran
\* before it: with the same state and the same answers of the model it
\* equals the outcome in a process that served no other session.
C24_SessionsIndependent ==
    (fnIn.op = "intent" /\ fnOut.stage = "done") => fnOut.after = fnOut.alone


\* C25: messages is append-only: every step of a stage leaves the messages
\* it found as a prefix of the messages it hands on, so nothing is
\* removed, rewritten or reordered during an invocation.
C25_MessagesAppendOnly ==
    [][ pc # "idle" =>
            /\ Len(messages') >= Len(messages)
            /\ SubSeq(messages', 1, Len(messages)) = messages ]_vars

\* an invocation that went through handle_error still starts with the
\* user's message and the replies of the stages before
C25_Witness ==
    /\ Ended
    /\ Ran("handle_error")
    /\ Len(messages) >= 4
    /\ messages[1].role = "user"
    /\ Last(messages).role = "assistant"


\* C26: in every reachable state appointment_details has a start_time if
\* and only if it has an end_time.
C26_StartAndEndTogether ==
    (appointment_details.start_time = -1) <=> (appointment_details.end_time = -1)

\* confirm_booking has written the times of the slot selected
C26_Witness ==
    /\ Ran("confirm_booking")
    /\ appointment_details.start_time # -1
    /\ appointment_details.end_time # -1
    /\ appointment_details.selected_slot # << >>


-----------------------------------------------------------------------------
(* How confirm_booking reads the user's message                            *)

\* messages that name a slot by index, by its displayed time, by a
\* confirmation word, or not at all
SelectionUtterances ==
    { "2",
      "book slot 1 next week in the evening",
      "tomorrow at 10:30 am please",
      "tomorrow at 02:00 pm",
      "yes book it",
      "i need a meeting tomorrow afternoon" }

SelectionSpec ==
    Init /\ [][Request(SelectionUtterances) \/ Step \/ ExternalBooking]_vars

\* the slot numbers written in the text
IndexesIn(u) == { u[j].h : j \in { i \in DOMAIN u : u[i].k = "n" } }

\* the offered slots whose displayed time is written in the text
NamedByTime(slots, u) ==
    { i \in DOMAIN slots : slots[i].time # << >> /\ TimeInText(slots[i].time, u) }

\* confirm_booking is about to read the text u against the slots offered
\* and does not fail
ConfirmReads(u) ==
    /\ pc = "confirm_booking"
    /\ u = Tokens(LastUserMessage(messages))
    /\ error_message' = ""

\* C27: confirm_booking resolves the message in fixed priority: a slot index
\* in range selects that slot whatever else the text holds, and a text
\* without an index that names the displayed time of an offered slot
\* selects the slot displayed with that time.
C27_SelectionPriority ==
    [][ \A u \in { Tokens(LastUserMessage(messages)) } :
          ConfirmReads(u) =>
            /\ \A n \in IndexesIn(u) \cap DOMAIN available_slots :
                   appointment_details'.selected_slot = << available_slots[n] >>
            /\ (IndexesIn(u) = {} /\ NamedByTime(available_slots, u) # {}) =>
                   \E i \in NamedByTime(available_slots, u) :
                       appointment_details'.selected_slot = << available_slots[i] >>
      ]_vars

\* the text holds no index of an offered slot, no offered slot's displayed
\* time and no confirmation keyword
Unresolved(slots, u) ==
    /\ IndexesIn(u) \cap DOMAIN slots = {}
    /\ NamedByTime(slots, u) = {}
    /\ ~IsConfirming(u)

\* C28: when the message names no valid slot index, no offered slot's time
\* and no confirmation keyword, confirm_booking only appends a re-prompt:
\* appointment_details, available_slots, the flags, booking_confirmed and
\* error_message are unchanged, whichever node produced the slots.
C28_UnresolvedOnlyReprompts ==
    [][ \A u \in { Tokens(LastUserMessage(messages)) } :
          (ConfirmReads(u) /\ Unresolved(available_slots, u)) =>
            /\ messages' = Append(messages, Asst("slot_suggestion"))
            /\ UNCHANGED << appointment_details, available_slots,
                            simple_greeting, auto_selected_slot,
                            booking_confirmed, error_message >>
      ]_vars

\* the same, for slots that check_availability produced
C28_AfterCheckAvailability ==
    [][ \A u \in { Tokens(LastUserMessage(messages)) } :
          (ConfirmReads(u) /\ Unresolved(available_slots, u)
             /\ Ran("check_availability")) =>
            /\ messages' = Append(messages, Asst("slot_suggestion"))
            /\ UNCHANGED << appointment_details, available_slots,
                            simple_greeting, auto_selected_slot,
                            booking_confirmed, error_message >>
      ]_vars

\* the text confirms without naming an offered slot by index or by time
GenericConfirmation(slots, u) ==
    /\ IsConfirming(u)
    /\ IndexesIn(u) \cap DOMAIN slots = {}
    /\ NamedByTime(slots, u) = {}

\* C29: when slots have been offered and the message is a generic
\* confirmation that names no slot, confirm_booking selects the first
\* offered slot: selected_slot, start_time and end_time are those of
\* available_slots[1].
C29_YesSelectsFirstSlot ==
    [][ \A u \in { Tokens(LastUserMessage(messages)) } :
          (ConfirmReads(u) /\ available_slots # << >>
             /\ GenericConfirmation(available_slots, u)) =>
            /\ appointment_details'.selected_slot = << available_slots[1] >>
            /\ appointment_details'.start_time = available_slots[1].start
            /\ appointment_details'.end_time = available_slots[1].end
      ]_vars


-----------------------------------------------------------------------------
(* The order of the date phrases in date_parser.py                         *)

\* the weekdays, as today.weekday() counts them, that the utterance names
\* after "next"
NamedWeekdays(u) == { i - 1 : i \in { j \in 1..7 : HasPhrase(u, "next", Weekdays[j]) } }

\* C30: parse_date_preference resolves the date in the order tomorrow or
\* next day (+1), then next <weekday> (the next such weekday after today),
\* then next week (+7), then the default (+1): an utterance holding a
\* next-weekday phrase and "next week" resolves to the named weekday, and
\* one holding none of the phrases resolves to tomorrow.
C30_DatePriority ==
    (fnIn.op = "parse" /\ fnIn.done) =>
        LET u == fnIn.utterance
            offset == fnOut.date_parser.target_day
        IN  IF HasWord(u, "tomorrow") \/ HasPhrase(u, "next", "day")
            THEN offset = 1
            ELSE IF NamedWeekdays(u) # {}
            THEN /\ offset \in 1..7
                 /\ (today_weekday + offset) % 7 \in NamedWeekdays(u)
            ELSE IF HasPhrase(u, "next", "week")
            THEN offset = 7
            ELSE offset = 1


-----------------------------------------------------------------------------
(* The order of the slots suggested for a specific time                    *)

\* the distance of the i-th returned slot from the requested time
DistanceOf(i) == Abs(fnOut.value[i].start - RequestedTime)

\* the hour requested is taken by an event
RequestedHourBusy ==
    [start |-> RequestedTime, end |-> RequestedTime + 3600] \in fnIn.events

C31_TieWitness ==
    /\ SpecificAnswered
    /\ \E i \in DOMAIN fnOut.value :
           /\ i + 1 \in DOMAIN fnOut.value
           /\ DistanceOf(i) = DistanceOf(i + 1)
           /\ fnOut.value[i].start < fnOut.value[i + 1].start


-----------------------------------------------------------------------------
(* The retry loop of understand_intent, one attempt at a time              *)

max_retries == 2

\* a variant that appends the fallback reply after every failed attempt
AttemptOutcome_AlwaysFallback(response, a) ==
    IF response \in Intents
    THEN [intent |-> response, reply |-> "intent_reply", stop |-> TRUE]
    ELSE [intent |-> "", reply |-> "intent_fallback", stop |-> a = max_retries]
\* booking_agent.py:321-465, the body of the loop for attempt a: a response
\* that parses sets the intent, appends the reply and breaks (326-410); any
\* other response appends the fallback on the last attempt only and
\* continues (412-463)
AttemptOutcome(response, a) ==
    IF response \in Intents
    THEN [intent |-> response, reply |-> "intent_reply", stop |-> TRUE]
    ELSE IF a = max_retries
    THEN [intent |-> "", reply |-> "intent_fallback", stop |-> TRUE]
    ELSE [intent |-> "", reply |-> "", stop |-> FALSE]

InitIntent ==
    /\ FreshAgent
    /\ pc = "idle"
    /\ attempt = 0
    /\ calendar = {}
    /\ today_weekday = 0
    /\ toolRaises = FALSE
    /\ visited = << >>
    /\ createLog = << >>
    /\ reverifyLog = << >>
    /\ gatewayLog = << >>
    /\ turns = 0
    /\ fnIn \in { [op |-> "intent_loop", done |-> FALSE, responses |-> r] :
                     r \in [0..max_retries -> LLMResponses] }
    /\ fnOut = [raised |-> FALSE, value |-> << >>, attempts |-> 0,
                intent |-> "", replies |-> << >>]

\* one iteration of `for attempt in range(max_retries + 1)`
IntentAttempt ==
    /\ fnIn.op = "intent_loop" /\ ~ fnIn.done
    /\ fnOut.attempts <= max_retries
    /\ LET a == fnOut.attempts
           o == AttemptOutcome(fnIn.responses[a], a)
       IN  /\ fnOut' = [fnOut EXCEPT
                           !.attempts = a + 1,
                           !.intent = o.intent,
                           !.replies = IF o.reply = "" THEN @
                                       ELSE Append(@, o.reply)]
           /\ fnIn' = [fnIn EXCEPT !.done = o.stop \/ a = max_retries]
    /\ UNCHANGED << agentVars, ctlVars, envVars, histVars >>

IntentSpec == InitIntent /\ [][IntentAttempt]_vars

\* the attempts whose response parses
Parsing == { a \in 0..max_retries : fnIn.responses[a] \in Intents }

\* C32: understand_intent makes at most 3 attempts, stops at the first one
\* whose response parses, and appends exactly one assistant message in
\* total: the intent reply on success, the fallback reply only after the
\* third attempt failed.  Before the loop has ended no fallback was appended.
C32_RetryLoopOneMessage ==
    fnIn.op = "intent_loop" =>
        /\ fnOut.attempts <= 3
        /\ \A a \in Parsing : fnOut.attempts <= a + 1
        /\ ~ fnIn.done => fnOut.replies = << >>
        /\ fnIn.done =>
               /\ Len(fnOut.replies) = 1
               /\ IF Parsing # {}
                  THEN /\ fnOut.attempts = FirstOf(Parsing) + 1
                       /\ fnOut.replies = << "intent_reply" >>
                       /\ fnOut.intent = fnIn.responses[FirstOf(Parsing)]
                  ELSE /\ fnOut.attempts = 3
                       /\ fnOut.replies = << "intent_fallback" >>
                       /\ fnOut.intent = ""
               /\ IntentLoop(fnIn.responses, 0) =
                      [intent |-> fnOut.intent, reply |-> fnOut.replies[1]]

\* two attempts failed, the third parsed: three attempts, one message
C32_Witness ==
    /\ fnIn.op = "intent_loop" /\ fnIn.done
    /\ fnIn.responses[0] = "malformed" /\ fnIn.responses[1] = "empty"
    /\ fnIn.responses[2] = "schedule"
    /\ fnOut.attempts = 3
    /\ fnOut.replies = << "intent_reply" >>


-----------------------------------------------------------------------------
(* What one request hands to the next                                      *)

\* a request arrives after an earlier request of the session has ended
NextRequestStarts == pc = "idle" /\ pc' = "greeting" /\ turns >= 1

\* C33: the state a request produced (messages, appointment draft, candidate
\* slots, flags) is the input state of the next request's invocation, with
\* the new user message appended.
C33_StateReloaded ==
    [][ NextRequestStarts =>
          /\ Len(messages') = Len(messages) + 1
          /\ SubSeq(messages', 1, Len(messages)) = messages
          /\ Last(messages').role = "user"
          /\ UNCHANGED << appointment_details, available_slots,
                          simple_greeting, auto_selected_slot >>
      ]_vars


-----------------------------------------------------------------------------
(* The graph invoked on the state its last invocation returned             *)

\* booking_agent.py:112, 189-193: the compiled graph takes whatever state
\* dict it is given and starts at greeting.  Here it is given the dict the
\* previous invocation returned, with the new user message appended; no
\* node and no edge clears a field at the start of an invocation.
Reinvoke(texts) ==
    /\ pc = "idle"
    /\ turns >= 1
    /\ turns < MaxTurns
    /\ \E text \in texts : messages' = Append(messages, User(text))
    /\ pc' = "greeting"
    /\ attempt' = 0
    /\ toolRaises' \in BOOLEAN
    /\ visited' = << >>
    /\ createLog' = << >>
    /\ reverifyLog' = << >>
    /\ gatewayLog' = << >>
    /\ turns' = turns + 1
    /\ UNCHANGED << user_intent, appointment_details, available_slots,
                    booking_confirmed, error_message, simple_greeting,
                    auto_selected_slot, calendar, today_weekday, fnVars >>

AccumulatedSpec ==
    Init /\ [][ \/ Request({ "hi", "i need a meeting tomorrow afternoon" })
                \/ Reinvoke({ "i need a meeting tomorrow afternoon", "2" })
                \/ Step
                \/ ExternalBooking ]_vars

\* the pre-filters of understand_intent let the text through to the model
PastPreFilters(u) ==
    u # << >> /\ ~ IsSimpleGreeting(u) /\ ~ IsHelpRequest(u) /\ ~ IsGoodbye(u)

\* C34: a short-circuit flag set in an earlier turn does not influence the
\* routing of a later one: when the graph is invoked on the accumulated
\* state, understand_intent on an utterance that is no greeting goes on to
\* collect_details (unless an error is set), and check_availability goes to
\* book_appointment only when it auto-selected a slot in this invocation.
C34_FlagsDoNotOutliveTurn ==
    [][ /\ (/\ pc = "understand_intent"
            /\ PastPreFilters(Tokens(LastUserMessage(messages)))
            /\ error_message' = "") => pc' = "collect_details"
        /\ (pc = "check_availability" /\ pc' = "book_appointment") =>
               (~ auto_selected_slot /\ auto_selected_slot')
      ]_vars


-----------------------------------------------------------------------------
(* Booking in the invocation that shows the slots                          *)

\* this invocation computed candidate slots and showed them as a menu
ShownInThisInvocation ==
    /\ available_slots # << >>
    /\ ~ auto_selected_slot
    /\ \/ Ran("check_availability") \/ Ran("suggest_slots")
    /\ \E i \in DOMAIN messages :
           messages[i] \in { Asst("slots_list"), Asst("slot_suggestion") }

\* C35: the invocation that computes and shows candidate slots through the
\* menu path creates no event: it does not reach book_appointment, since
\* the only user message it holds is the scheduling request itself, issued
\* before the slots were shown.
C35_NoBookingWhenFirstShown ==
    ShownInThisInvocation =>
        /\ ~ Ran("book_appointment")
        /\ createLog = << >>


-----------------------------------------------------------------------------
(* The gateway's book_appointment                                          *)

\* the interval to book meets an event of the calendar
BookingOverlaps ==
    \E b \in fnIn.events : fnIn.start_time < b.end /\ fnIn.end_time > b.start

-----------------------------------------------------------------------------
(* Two invocations booking at the same time                                *)

\* Two invocations, each in book_appointment_node with a slot of its own
\* draft: each makes its own GoogleCalendarManager (booking_agent.py:1009-
\* 1012) and calls book_appointment on it, which first lists the events of
\* the interval (calendar.py:309-316) and then inserts (344-348), two
\* separate API calls on the one calendar.
InitRace ==
    /\ FreshAgent
    /\ pc = "idle"
    /\ attempt = 0
    /\ calendar \in InitialCalendars
    /\ today_weekday = 0
    /\ toolRaises = FALSE
    /\ visited = << >>
    /\ createLog = << >>
    /\ reverifyLog = << >>
    /\ gatewayLog = << >>
    /\ turns = 0
    /\ fnIn \in { [op |-> "race", done |-> FALSE,
                    start_time |-> [session \in { "A", "B" } |->
                                       IF session = "A" THEN a ELSE b]] :
                     a \in { At(1, 13, 0, 0), At(1, 14, 0, 0), At(1, 15, 0, 0) },
                     b \in { At(1, 14, 0, 0), At(1, 14, 30, 0), At(1, 15, 0, 0) } }
    /\ fnOut = [raised |-> FALSE, value |-> << >>,
                at |-> [session \in { "A", "B" } |-> "called"],
                availability |-> [session \in { "A", "B" } |-> << >>],
                created |-> << >>]

\* calendar.py:309-316: a session's call lists the events and computes its
\* availability; an empty one ends the call with success False
RaceCheck ==
    /\ fnIn.op = "race"
    /\ \E session \in { "A", "B" } :
        LET t == fnIn.start_time[session]
            availability == check_availability(calendar, t, t + 3600, 60, "ok")
        IN  /\ fnOut.at[session] = "called"
            /\ fnOut' = [fnOut EXCEPT
                            !.at[session] = IF availability = << >>
                                            THEN "refused" ELSE "checked",
                            !.availability[session] = availability]
    /\ UNCHANGED << fnIn, agentVars, ctlVars, envVars, histVars >>

\* calendar.py:344-366: the session's call inserts its event and returns
\* success True
RaceInsert ==
    /\ fnIn.op = "race"
    /\ \E session \in { "A", "B" } :
        LET t == fnIn.start_time[session]
        IN  /\ fnOut.at[session] = "checked"
            /\ fnOut' = [fnOut EXCEPT
                            !.at[session] = "created",
                            !.created = Append(@, [session |-> session,
                                                   start |-> t,
                                                   end |-> t + 3600])]
            /\ calendar' = calendar \cup { [start |-> t, end |-> t + 3600] }
    /\ UNCHANGED << fnIn, agentVars, ctlVars, today_weekday, toolRaises,
                    histVars >>

RaceSpec == InitRace /\ [][RaceCheck \/ RaceInsert]_vars

\* C37: when two invocations of different sessions book the same slot at
\* the same time, at most one of them gets a successful create-event, and
\* no two events the system created overlap, under every interleaving of
\* their availability checks and inserts.
C37_NoDoubleBooking ==
    fnIn.op = "race" =>
        /\ \A i, j \in DOMAIN fnOut.created :
               i # j => ~ (/\ fnOut.created[i].start < fnOut.created[j].end
                           /\ fnOut.created[i].end > fnOut.created[j].start)
        /\ fnIn.start_time["A"] = fnIn.start_time["B"] =>
               ~ (fnOut.at["A"] = "created" /\ fnOut.at["B"] = "created")


-----------------------------------------------------------------------------
(* Routing and the intent                                                  *)

\* C38: routing never depends on user_intent: the stage that follows a
\* stage is determined by error_message, the two flags, the candidate
\* slots and the draft as the stage left them, whatever the intent; the
\* intent is written by understand_intent only; so invocations that differ
\* only in the intent traverse the same stages and make the same gateway
\* calls, availability search and booking included.
C38_RoutingIgnoresIntent ==
    [][ /\ pc \notin { "idle", "understand_intent" } => user_intent' = user_intent
        /\ (pc # "idle" /\ ~ (pc = "book_appointment" /\ pc' = pc)) =>
              pc' = IF pc = "handle_error" THEN "idle"
                    ELSE IF error_message' # "" THEN "handle_error"
                    ELSE IF pc = "greeting"
                    THEN (IF Len(messages') >= 2 THEN "understand_intent"
                          ELSE "idle")
                    ELSE IF pc = "understand_intent"
                    THEN (IF simple_greeting' THEN "idle" ELSE "collect_details")
                    ELSE IF pc = "collect_details"
                    THEN (IF appointment_details'.target_day # 0
                          THEN "check_availability" ELSE "suggest_slots")
                    ELSE IF pc = "check_availability"
                    THEN (IF auto_selected_slot' THEN "book_appointment"
                          ELSE IF available_slots' # << >> THEN "confirm_booking"
                          ELSE "idle")
                    ELSE IF pc = "suggest_slots"
                    THEN (IF available_slots' # << >> THEN "confirm_booking"
                          ELSE "idle")
                    ELSE IF pc = "confirm_booking"
                    THEN (IF appointment_details'.title # "" THEN "book_appointment"
                          ELSE "idle")
                    ELSE "idle"
      ]_vars

\* an invocation whose intent was understood as a general inquiry has
\* searched the calendar and created an event
C38_Witness ==
    /\ Ended
    /\ user_intent = "general_inquiry"
    /\ Ran("check_availability")
    /\ \E i \in DOMAIN createLog : createLog[i].success
    /\ booking_confirmed


-----------------------------------------------------------------------------
(* The two parsers side by side                                            *)

\* C39: the parser of agent/tools.py and the parser of utils/date_parser.py
\* return the same target date, time_preference and start_hour for every
\* utterance.
C39_ParsersAgree ==
    (fnIn.op = "parse" /\ fnIn.done) =>
        /\ fnOut.tools.target_day = fnOut.date_parser.target_day
        /\ fnOut.tools.time_preference = fnOut.date_parser.time_preference
        /\ fnOut.tools.start_hour = fnOut.date_parser.start_hour


-----------------------------------------------------------------------------
(* The evening window                                                      *)

\* C40: an "evening" preference (anchor hour 17, window 17:00-19:00) always
\* yields an empty slot list from suggest_time_slots, whatever the busy
\* intervals: every candidate of the window starts at an hour >= 17 and is
\* rejected by the business-hours rule.
C40_EveningIsEmpty ==
    (fnIn.op = "suggest" /\ fnIn.done /\ fnIn.parsed.time_preference = "evening") =>
        LET w == SuggestWindow(fnIn.parsed)
        IN  /\ fnIn.parsed.start_hour = 17
            /\ w.start_date = At(fnIn.parsed.target_day, 17, 0, 0)
            /\ w.end_date = At(fnIn.parsed.target_day, 19, 0, 0)
            /\ \A k \in 0..3 : HourOf(w.start_date + k * 1800) >= business_end
            /\ ~ fnOut.raised
            /\ fnOut.value = << >>

\* an evening request on an empty calendar has returned no slot
C40_Witness ==
    /\ fnIn.op = "suggest" /\ fnIn.done
    /\ fnIn.utterance = << W("tomorrow"), W("evening") >>
    /\ fnIn.events = {}
    /\ fnOut.value = << >>


====
